---------------------------- MODULE Spec2Model ----------------------------
(***************************************************************************)
(* TrackExp: a multi-user expense tracker (Streamlit).                     *)
(*                                                                         *)
(* The repository holds two deployments of the same application:          *)
(*   "file"  ME.py (monolith) with auth_security.py: credentials, login    *)
(*           attempts and per-user data live in JSON files;                *)
(*   "db"    ui_components.py, database_manager.py, expense_manager.py:    *)
(*           credentials and data live in PostgreSQL tables, login         *)
(*           attempts in st.session_state.                                 *)
(* The variable variant, drawn in Init, says which deployment runs.        *)
(*                                                                         *)
(* Text values (usernames, passwords, account names) are sequences of      *)
(* one-character strings, so that strip(), lower() and re.sub() are        *)
(* computed character by character.  Time is in whole seconds.             *)
(***************************************************************************)
EXTENDS Integers, Sequences, FiniteSets, TLC

VARIABLES
    variant,        \* "file" or "db"
    now,            \* the wall clock: time.time() / datetime.now(), in seconds
    users,          \* users_secure.json / table users: key -> credential record
    attempts_data,  \* login_attempts.json: key -> [failed_attempts, last_attempt]
    session,        \* st.session_state of each browser session
    data_files,     \* secure_data/spese_data_<user>.json: key -> file content
    db,             \* tables spese_giornaliere, spese_ricorrenti, conti
    result,         \* what the last handler or call returned / showed
    streak          \* history: failed authenticate calls in a row, per key

vars == <<variant, now, users, attempts_data, session, data_files, db, result, streak>>

-----------------------------------------------------------------------------
(* Text *)

UpperSeq == <<"A","B","C","D","E","F","G","H","I","J","K","L","M",
              "N","O","P","Q","R","S","T","U","V","W","X","Y","Z">>
LowerSeq == <<"a","b","c","d","e","f","g","h","i","j","k","l","m",
              "n","o","p","q","r","s","t","u","v","w","x","y","z">>
DigitSeq == <<"0","1","2","3","4","5","6","7","8","9">>
SpecialSeq == <<"!","@","#","$","%","^","&","*","(",")",",",".","?","\"",":","{","}","|","<",">">>

Range(f) == {f[i] : i \in DOMAIN f}

UpperChars == Range(UpperSeq)
LowerChars == Range(LowerSeq)
DigitChars == Range(DigitSeq)
SpecialChars == Range(SpecialSeq)
Whitespace == {" "}

\* str.lower() of one character
LowerChar(c) ==
    IF c \in UpperChars
    THEN LowerSeq[CHOOSE i \in DOMAIN UpperSeq : UpperSeq[i] = c]
    ELSE c

\* str.lower()
lower(s) == [i \in DOMAIN s |-> LowerChar(s[i])]

RECURSIVE lstrip(_)
lstrip(s) == IF s # <<>> /\ Head(s) \in Whitespace THEN lstrip(Tail(s)) ELSE s

RECURSIVE rstrip(_)
rstrip(s) ==
    IF s # <<>> /\ s[Len(s)] \in Whitespace
    THEN rstrip(SubSeq(s, 1, Len(s) - 1))
    ELSE s

\* str.strip()
strip(s) == rstrip(lstrip(s))

\* Python's None where a text value is expected
None == <<"None">>

\* Truth value of a Python tuple: a tuple is false only when it is empty
PyTruthyTuple(t) == Len(t) # 0

\* dict update: d[k] = v
Put(d, k, v) == [x \in DOMAIN d \cup {k} |-> IF x = k THEN v ELSE d[x]]

\* del d[k]
Del(d, k) == [x \in DOMAIN d \ {k} |-> d[x]]

EmptyDict == [x \in {} |-> 0]

\* list.pop(i) with a 0-based index
Pop(l, i) == [j \in 1..(Len(l) - 1) |-> IF j <= i THEN l[j] ELSE l[j + 1]]

-----------------------------------------------------------------------------
(* Security configuration *)

MIN_PASSWORD_LENGTH == 8
MAX_LOGIN_ATTEMPTS == 5
LOCKOUT_DURATION == 300
SESSION_TIMEOUT == 3600
UI_MAX_LOGIN_ATTEMPTS == 5
UI_LOCKOUT_TIME == 15
UI_SESSION_TIMEOUT == 30
NoTime == -1

-----------------------------------------------------------------------------
(* auth_security.py / ME.py: passwords *)

\* PBKDF2-HMAC-SHA256 is modelled as an injective function of (password, salt)
hash_password_secure(password, salt) == <<password, salt>>

HasAny(password, chars) == \E i \in DOMAIN password : password[i] \in chars

\* a check that accepts a password lacking two of the four classes
validate_password_strength_two(password) ==
    IF Len(password) < MIN_PASSWORD_LENGTH
    THEN FALSE
    ELSE LET missing == {k \in {"uppercase", "lowercase", "digit", "special"} :
                            ~ HasAny(password,
                                     CASE k = "uppercase" -> UpperChars
                                       [] k = "lowercase" -> LowerChars
                                       [] k = "digit" -> DigitChars
                                       [] OTHER -> SpecialChars)}
         IN  ~ (Cardinality(missing) > 2)

validate_password_strength(password) ==
    IF Len(password) < MIN_PASSWORD_LENGTH
    THEN FALSE
    ELSE LET missing == {k \in {"uppercase", "lowercase", "digit", "special"} :
                            ~ HasAny(password,
                                     CASE k = "uppercase" -> UpperChars
                                       [] k = "lowercase" -> LowerChars
                                       [] k = "digit" -> DigitChars
                                       [] OTHER -> SpecialChars)}
         IN  ~ (Cardinality(missing) > 1)

\* database_manager.py: bcrypt.hashpw keeps the salt inside the hash
hash_password(password, salt) == <<password, salt>>

verify_password(password, hashed) == hashed = <<password, hashed[2]>>

is_strong_password(password) ==
    IF Len(password) < 8
    THEN FALSE
    ELSE /\ HasAny(password, UpperChars)
         /\ HasAny(password, LowerChars)
         /\ HasAny(password, DigitChars)
         /\ HasAny(password, SpecialChars)

-----------------------------------------------------------------------------
(* auth_security.py / ME.py: usernames and the login-attempt file *)

UsernameChars == UpperChars \cup LowerChars \cup DigitChars \cup {"_", "-"}

\* re.sub(r'[^a-zA-Z0-9_-]', '', username)
sanitize_username(username) == SelectSeq(username, LAMBDA c : c \in UsernameChars)

ZeroAttempts == [failed_attempts |-> 0, last_attempt |-> 0]

\* a lock check that opens at the instant the duration ends
is_account_locked_open_at_end(attempts, username, t) ==
    LET username_clean == sanitize_username(username) IN
    IF username_clean \notin DOMAIN attempts
    THEN [locked |-> FALSE, remaining |-> 0, attempts |-> attempts]
    ELSE LET user_attempts == attempts[username_clean] IN
         IF user_attempts.failed_attempts < MAX_LOGIN_ATTEMPTS
         THEN [locked |-> FALSE, remaining |-> 0, attempts |-> attempts]
         ELSE IF t - user_attempts.last_attempt >= LOCKOUT_DURATION
              THEN [locked |-> FALSE, remaining |-> 0,
                    attempts |-> Put(attempts, username_clean, ZeroAttempts)]
              ELSE [locked |-> TRUE,
                    remaining |-> LOCKOUT_DURATION - (t - user_attempts.last_attempt),
                    attempts |-> attempts]

\* returns (is_locked, remaining_time) and the attempts file as it leaves it
is_account_locked(attempts, username, t) ==
    LET username_clean == sanitize_username(username) IN
    IF username_clean \notin DOMAIN attempts
    THEN [locked |-> FALSE, remaining |-> 0, attempts |-> attempts]
    ELSE LET user_attempts == attempts[username_clean] IN
         IF user_attempts.failed_attempts < MAX_LOGIN_ATTEMPTS
         THEN [locked |-> FALSE, remaining |-> 0, attempts |-> attempts]
         ELSE IF t - user_attempts.last_attempt > LOCKOUT_DURATION
              THEN [locked |-> FALSE, remaining |-> 0,
                    attempts |-> Put(attempts, username_clean, ZeroAttempts)]
              ELSE [locked |-> TRUE,
                    remaining |-> LOCKOUT_DURATION - (t - user_attempts.last_attempt),
                    attempts |-> attempts]

record_failed_login(attempts, username, t) ==
    LET username_clean == sanitize_username(username)
        old == IF username_clean \in DOMAIN attempts
               THEN attempts[username_clean]
               ELSE ZeroAttempts
    IN  Put(attempts, username_clean,
            [failed_attempts |-> old.failed_attempts + 1, last_attempt |-> t])

\* a successful login that leaves the counter as it is
record_successful_login_kept(attempts, username) == attempts

record_successful_login(attempts, username) ==
    LET username_clean == sanitize_username(username) IN
    IF username_clean \in DOMAIN attempts
    THEN Put(attempts, username_clean, ZeroAttempts)
    ELSE attempts

\* A users file that does not exist is created empty and read as no user:
\* both paths record a failed login and answer "Credenziali non valide".
authenticate_user(usrs, attempts, username, password, t) ==
    LET username_clean == sanitize_username(username)
        lock == is_account_locked(attempts, username_clean, t)
    IN  IF lock.locked
        THEN [ok |-> FALSE, msg |-> "Account bloccato", remaining |-> lock.remaining,
              attempts |-> lock.attempts]
        ELSE IF username_clean \in DOMAIN usrs
                /\ hash_password_secure(password, usrs[username_clean].salt)
                      = usrs[username_clean].password_hash
             THEN [ok |-> TRUE, msg |-> "Login effettuato con successo", remaining |-> 0,
                   attempts |-> record_successful_login(lock.attempts, username_clean)]
             ELSE [ok |-> FALSE, msg |-> "Credenziali non valide", remaining |-> 0,
                   attempts |-> record_failed_login(lock.attempts, username_clean, t)]

\* a registration that does not look for the username among the stored ones
register_user_overwriting(usrs, username, password, salt) ==
    LET username_clean == sanitize_username(username) IN
    IF Len(username_clean) < 3
    THEN [ok |-> FALSE, msg |-> "username troppo corto", users |-> usrs]
    ELSE IF username # username_clean
    THEN [ok |-> FALSE, msg |-> "username non valido", users |-> usrs]
    ELSE IF ~ validate_password_strength(password)
    THEN [ok |-> FALSE, msg |-> "password debole", users |-> usrs]
    ELSE [ok |-> TRUE, msg |-> "Utente registrato con successo",
          users |-> Put(usrs, username_clean,
                        [password_hash |-> hash_password_secure(password, salt),
                         salt |-> salt,
                         display_name |-> username])]

register_user(usrs, username, password, salt) ==
    LET username_clean == sanitize_username(username) IN
    IF Len(username_clean) < 3
    THEN [ok |-> FALSE, msg |-> "username troppo corto", users |-> usrs]
    ELSE IF username # username_clean
    THEN [ok |-> FALSE, msg |-> "username non valido", users |-> usrs]
    ELSE IF ~ validate_password_strength(password)
    THEN [ok |-> FALSE, msg |-> "password debole", users |-> usrs]
    ELSE IF username_clean \in DOMAIN usrs
    THEN [ok |-> FALSE, msg |-> "Username gia esistente", users |-> usrs]
    ELSE [ok |-> TRUE, msg |-> "Utente registrato con successo",
          users |-> Put(usrs, username_clean,
                        [password_hash |-> hash_password_secure(password, salt),
                         salt |-> salt,
                         display_name |-> username])]

\* a change of password that accepts any current password
change_password_unchecked(usrs, attempts, username, old_password, new_password, salt, t) ==
    LET auth == authenticate_user(usrs, attempts, username, old_password, t)
        username_clean == sanitize_username(username)
    IN  IF ~ validate_password_strength(new_password) \/ username_clean \notin DOMAIN usrs
        THEN [ok |-> FALSE, msg |-> "password debole", users |-> usrs,
              auth |-> auth, attempts |-> auth.attempts]
        ELSE [ok |-> TRUE, msg |-> "Password cambiata con successo", auth |-> auth,
              users |-> Put(usrs, username_clean,
                            [usrs[username_clean] EXCEPT
                                !.password_hash = hash_password_secure(new_password, salt),
                                !.salt = salt]),
              attempts |-> auth.attempts]

\* ME.change_password / auth_security.UserAuthenticator.change_password
change_password(usrs, attempts, username, old_password, new_password, salt, t) ==
    LET auth == authenticate_user(usrs, attempts, username, old_password, t)
        username_clean == sanitize_username(username)
    IN  IF ~ auth.ok
        THEN [ok |-> FALSE, msg |-> "Password attuale non corretta", users |-> usrs,
              auth |-> auth, attempts |-> auth.attempts]
        ELSE IF ~ validate_password_strength(new_password)
        THEN [ok |-> FALSE, msg |-> "password debole", users |-> usrs,
              auth |-> auth, attempts |-> auth.attempts]
        ELSE [ok |-> TRUE, msg |-> "Password cambiata con successo", auth |-> auth,
              users |-> Put(usrs, username_clean,
                            [usrs[username_clean] EXCEPT
                                !.password_hash = hash_password_secure(new_password, salt),
                                !.salt = salt]),
              attempts |-> auth.attempts]

-----------------------------------------------------------------------------
(* ui_components.py: the login-attempt tracker kept in st.session_state *)

\* datetime.now() + timedelta(minutes=LOCKOUT_TIME), in seconds
UiLockoutSeconds == UI_LOCKOUT_TIME * 60

\* returns the tuple (is_locked, remaining_minutes)
is_locked_out(la, username, t) ==
    IF /\ username \in DOMAIN la
       /\ la[username].count >= UI_MAX_LOGIN_ATTEMPTS
       /\ la[username].lockout_time # NoTime
       /\ t < la[username].lockout_time
    THEN <<TRUE, (la[username].lockout_time - t) \div 60>>
    ELSE <<FALSE, 0>>

record_failed_attempt(la, username, t) ==
    LET old == IF username \in DOMAIN la
               THEN la[username]
               ELSE [count |-> 0, lockout_time |-> NoTime]
        count == old.count + 1
    IN  Put(la, username,
            [count |-> count,
             lockout_time |-> IF count >= UI_MAX_LOGIN_ATTEMPTS
                              THEN t + UiLockoutSeconds
                              ELSE old.lockout_time])

reset_attempts(la, username) ==
    IF username \in DOMAIN la THEN Del(la, username) ELSE la

\* SupabaseDatabaseManager.get_user: the row, or no row
get_user(usrs, username) == IF username \in DOMAIN usrs THEN <<usrs[username]>> ELSE <<>>

\* INSERT INTO users: the primary key refuses a second row of the same username
save_user(usrs, username, password_hash, display_name) ==
    IF username \in DOMAIN usrs
    THEN [ok |-> FALSE, users |-> usrs]
    ELSE [ok |-> TRUE,
          users |-> Put(usrs, username,
                        [password_hash |-> password_hash,
                         salt |-> password_hash[2],
                         display_name |-> display_name])]

ui_register_user(usrs, username, password, display_name, salt) ==
    IF username = <<>> \/ password = <<>>
    THEN [ok |-> FALSE, msg |-> "obbligatori", users |-> usrs]
    ELSE LET username_clean == lower(strip(username)) IN
         IF Len(username_clean) < 3
         THEN [ok |-> FALSE, msg |-> "username troppo corto", users |-> usrs]
         ELSE IF ~ is_strong_password(password)
         THEN [ok |-> FALSE, msg |-> "password debole", users |-> usrs]
         ELSE LET saved == save_user(usrs, username_clean, hash_password(password, salt),
                                    IF display_name = <<>> THEN username ELSE display_name)
              IN  IF saved.ok
                  THEN [ok |-> TRUE, msg |-> "Registrazione completata", users |-> saved.users]
                  ELSE [ok |-> FALSE, msg |-> "Username gia esistente", users |-> usrs]

ui_authenticate_user(usrs, la, username, password, t) ==
    IF username = <<>> \/ password = <<>>
    THEN [ok |-> FALSE, msg |-> "obbligatori", login_attempts |-> la]
    ELSE LET username_clean == lower(strip(username))
             user == get_user(usrs, username_clean)
         IN  IF user # <<>> /\ verify_password(password, user[1].password_hash)
             THEN [ok |-> TRUE, msg |-> "Login effettuato con successo",
                   login_attempts |-> reset_attempts(la, username_clean)]
             ELSE [ok |-> FALSE, msg |-> "Username o password non corretti",
                   login_attempts |-> record_failed_attempt(la, username_clean, t)]

-----------------------------------------------------------------------------
(* Sessions *)

SessionIds == {1, 2}

\* st.session_state as ME.py lines 408-422 initialise it; last_activity is not
\* a key of it until the first login (NoTime), login_attempts starts empty
NewSession ==
    [authenticated |-> FALSE, username |-> None, display_username |-> None,
     last_activity |-> NoTime,
     spese_giornaliere |-> <<>>, spese_ricorrenti |-> <<>>, conti |-> <<>>,
     login_attempts |-> EmptyDict]

\* ME.py lines 426-432, 646-652, 882-888: what a forced or chosen logout assigns
\* the clearing with the three lists left as they are
ClearedSession_keeping_lists(sess) ==
    [sess EXCEPT !.authenticated = FALSE, !.username = None, !.display_username = None]

ClearedSession(sess) ==
    [sess EXCEPT !.authenticated = FALSE, !.username = None, !.display_username = None,
                 !.spese_giornaliere = <<>>, !.spese_ricorrenti = <<>>, !.conti = <<>>]

\* a timeout check that re-stamps the session however old it is
check_session_timeout_sliding(sess, t) ==
    [expired |-> FALSE, session |-> [sess EXCEPT !.last_activity = t]]

\* a window that is fixed at the login: a check in time leaves last_activity
check_session_timeout_fixed_window(sess, t) ==
    IF sess.last_activity = NoTime
    THEN [expired |-> FALSE, session |-> [sess EXCEPT !.last_activity = t]]
    ELSE IF t - sess.last_activity > SESSION_TIMEOUT
         THEN [expired |-> TRUE, session |-> sess]
         ELSE [expired |-> FALSE, session |-> sess]

\* auth_security.SessionManager.check_session_timeout / ME.check_session_timeout
check_session_timeout(sess, t) ==
    IF sess.last_activity = NoTime
    THEN [expired |-> FALSE, session |-> [sess EXCEPT !.last_activity = t]]
    ELSE IF t - sess.last_activity > SESSION_TIMEOUT
         THEN [expired |-> TRUE, session |-> sess]
         ELSE [expired |-> FALSE, session |-> [sess EXCEPT !.last_activity = t]]

\* ui_components.SessionManager.check_session_timeout (timeout in minutes)
ui_check_session_timeout(sess, t) ==
    IF sess.last_activity # NoTime /\ t - sess.last_activity > UI_SESSION_TIMEOUT * 60
    THEN [expired |-> TRUE, session |-> sess]
    ELSE [expired |-> FALSE, session |-> [sess EXCEPT !.last_activity = t]]

\* The shape of what a handler reports
Res(op, ok, msg) ==
    [op |-> op, ok |-> ok, msg |-> msg, sid |-> 0, key |-> None, password |-> <<>>,
     locked |-> FALSE, remaining |-> 0, indice |-> -1,
     daily_count |-> 0, recurring_count |-> 0, loaded |-> <<>>]

-----------------------------------------------------------------------------
(* History kept for the lockout properties: per tracker key, how many         *)
(* authenticate calls in a row answered "invalid credentials", and when the   *)
(* last one did.  A key is <<0, username>> for the attempts file and          *)
(* <<session, username>> for the tracker a session keeps.                     *)

StreakCap == 6

\* n: failures in a row; at: time of the last failure; reset: a success has
\* ended a run of failures
StreakOf(k) ==
    IF k \in DOMAIN streak THEN streak[k] ELSE [n |-> 0, at |-> 0, reset |-> FALSE]

StreakAfter(k, ok, msg) ==
    IF ok
    THEN Put(streak, k, [n |-> 0, at |-> StreakOf(k).at,
                         reset |-> StreakOf(k).reset \/ StreakOf(k).n > 0])
    ELSE IF msg \in {"Credenziali non valide", "Username o password non corretti"}
         THEN Put(streak, k, [n |-> IF StreakOf(k).n < StreakCap
                                     THEN StreakOf(k).n + 1
                                     ELSE StreakCap,
                              at |-> now,
                              reset |-> StreakOf(k).reset])
         ELSE streak

-----------------------------------------------------------------------------
(* expense_manager.py: accounts and expenses (ME.py holds the same code,      *)
(* applied to st.session_state and followed by salva_dati).                   *)
(* Amounts are counted in thousandths of a euro.                              *)

\* the "no account" option of the account selectbox
Nessuno == <<"N","e","s","s","u","n","o">>

\* spesa.get('conto')
GetConto(spesa) == IF "conto" \in DOMAIN spesa THEN spesa.conto ELSE None

aggiungi_conto(conti_list, nome, descrizione, tipo_conto, t) ==
    Append(conti_list,
           [id |-> Len(conti_list) + 1, nome |-> nome, descrizione |-> descrizione,
            tipo |-> tipo_conto, creato_il |-> t])

\* a delete that looks for references among the daily expenses only
elimina_conto_daily_only(conti_list, spese_giornaliere, spese_ricorrenti, indice) ==
    IF 0 <= indice /\ indice < Len(conti_list)
    THEN LET conto_nome == conti_list[indice + 1].nome
             spese_con_conto ==
                 SelectSeq(spese_giornaliere, LAMBDA sp : GetConto(sp) = conto_nome)
         IN  IF spese_con_conto # <<>>
             THEN [ok |-> FALSE, msg |-> "Impossibile eliminare il conto",
                   daily_count |-> Len(spese_con_conto), recurring_count |-> 0,
                   conti |-> conti_list]
             ELSE [ok |-> TRUE, msg |-> "Conto eliminato con successo",
                   daily_count |-> 0, recurring_count |-> 0,
                   conti |-> Pop(conti_list, indice)]
    ELSE [ok |-> FALSE, msg |-> "Errore nell'eliminazione del conto",
          daily_count |-> 0, recurring_count |-> 0, conti |-> conti_list]

\* indice is 0-based; conto_eliminato['nome'] raises KeyError on a record that a
\* restored backup left without a name
elimina_conto(conti_list, spese_giornaliere, spese_ricorrenti, indice) ==
    IF 0 <= indice /\ indice < Len(conti_list)
    THEN IF "nome" \notin DOMAIN conti_list[indice + 1]
         THEN [ok |-> FALSE, msg |-> "KeyError", daily_count |-> 0,
               recurring_count |-> 0, conti |-> conti_list]
         ELSE
         LET conto_nome == conti_list[indice + 1].nome
             spese_con_conto ==
                 SelectSeq(spese_giornaliere, LAMBDA sp : GetConto(sp) = conto_nome)
             spese_ricorrenti_con_conto ==
                 SelectSeq(spese_ricorrenti, LAMBDA sp : GetConto(sp) = conto_nome)
         IN  IF spese_con_conto # <<>> \/ spese_ricorrenti_con_conto # <<>>
             THEN [ok |-> FALSE, msg |-> "Impossibile eliminare il conto",
                   daily_count |-> Len(spese_con_conto),
                   recurring_count |-> Len(spese_ricorrenti_con_conto),
                   conti |-> conti_list]
             ELSE [ok |-> TRUE, msg |-> "Conto eliminato con successo",
                   daily_count |-> 0, recurring_count |-> 0,
                   conti |-> Pop(conti_list, indice)]
    ELSE [ok |-> FALSE, msg |-> "Errore nell'eliminazione del conto",
          daily_count |-> 0, recurring_count |-> 0, conti |-> conti_list]

aggiungi_spesa_giornaliera(spese_list, data, categoria, descrizione, importo, conto) ==
    Append(spese_list,
           [data |-> data, categoria |-> categoria, descrizione |-> descrizione,
            importo |-> importo, conto |-> conto])

aggiungi_spesa_ricorrente(spese_list, nome, categoria, importo, frequenza, conto) ==
    Append(spese_list,
           [nome |-> nome, categoria |-> categoria, importo |-> importo,
            frequenza |-> frequenza, conto |-> conto])

\* a delete that hands every index to list.pop, which counts a negative
\* index from the end of the list
elimina_spesa_giornaliera_unguarded(spese_list, indice) ==
    IF 0 <= indice /\ indice < Len(spese_list) THEN Pop(spese_list, indice)
    ELSE IF indice < 0 /\ 0 - indice <= Len(spese_list)
    THEN Pop(spese_list, Len(spese_list) + indice)
    ELSE spese_list

elimina_spesa_giornaliera(spese_list, indice) ==
    IF 0 <= indice /\ indice < Len(spese_list) THEN Pop(spese_list, indice) ELSE spese_list

elimina_spesa_ricorrente(spese_list, indice) ==
    IF 0 <= indice /\ indice < Len(spese_list) THEN Pop(spese_list, indice) ELSE spese_list

-----------------------------------------------------------------------------
(* ME.py: the per-user JSON file *)

\* a code point UTF-8 cannot encode (json.loads yields it from "\ud800")
LoneSurrogate == "<U+D800>"

TextFields == {"nome", "descrizione", "conto"}

Encodable(rec) ==
    \A f \in DOMAIN rec \cap TextFields : \A i \in DOMAIN rec[f] : rec[f][i] # LoneSurrogate

\* how many leading records of a list the writer gets through
RECURSIVE Written(_)
Written(list) ==
    IF list = <<>> \/ ~ Encodable(Head(list)) THEN 0 ELSE 1 + Written(Tail(list))

\* spese_data_<username_clean>.json, named here by its username part
get_user_data_file(username) == sanitize_username(username)

\* open(DATA_FILE, 'w') empties the file, json.dump then writes the three lists
\* record after record; a text that cannot be encoded stops the writer there,
\* and what was written before it stays in the file.
salva_dati(files, username, spese_giornaliere, spese_ricorrenti, conti) ==
    LET ng == Written(spese_giornaliere)
        nr == Written(spese_ricorrenti)
        nc == Written(conti)
        content ==
            IF ng < Len(spese_giornaliere)
            THEN [complete |-> FALSE,
                  spese_giornaliere |-> SubSeq(spese_giornaliere, 1, ng),
                  spese_ricorrenti |-> <<>>, conti |-> <<>>]
            ELSE IF nr < Len(spese_ricorrenti)
            THEN [complete |-> FALSE, spese_giornaliere |-> spese_giornaliere,
                  spese_ricorrenti |-> SubSeq(spese_ricorrenti, 1, nr), conti |-> <<>>]
            ELSE IF nc < Len(conti)
            THEN [complete |-> FALSE, spese_giornaliere |-> spese_giornaliere,
                  spese_ricorrenti |-> spese_ricorrenti, conti |-> SubSeq(conti, 1, nc)]
            ELSE [complete |-> TRUE, spese_giornaliere |-> spese_giornaliere,
                  spese_ricorrenti |-> spese_ricorrenti, conti |-> conti]
    IN  [ok |-> content.complete,
         files |-> Put(files, get_user_data_file(username), content)]

\* json.load of a file cut short raises; the session then keeps what it holds
carica_dati(sess, files) ==
    LET f == get_user_data_file(sess.username) IN
    IF f \in DOMAIN files /\ files[f].complete
    THEN [sess EXCEPT !.spese_giornaliere = files[f].spese_giornaliere,
                      !.spese_ricorrenti = files[f].spese_ricorrenti,
                      !.conti = files[f].conti]
    ELSE sess

\* data.get(key, []) on the parsed backup
BlobGet(blob, key) == IF key \in DOMAIN blob.obj THEN blob.obj[key] ELSE <<>>

\* ME.carica_backup: the three session lists are assigned, then salva_dati runs
carica_backup(sess, files, blob) ==
    IF blob.kind # "object"
    THEN [ok |-> FALSE, session |-> sess, files |-> files]
    ELSE LET sess2 == [sess EXCEPT !.spese_giornaliere = BlobGet(blob, "spese_giornaliere"),
                                   !.spese_ricorrenti = BlobGet(blob, "spese_ricorrenti"),
                                   !.conti = BlobGet(blob, "conti")]
             saved == salva_dati(files, sess2.username, sess2.spese_giornaliere,
                                 sess2.spese_ricorrenti, sess2.conti)
         IN  [ok |-> saved.ok, session |-> sess2, files |-> saved.files]

-----------------------------------------------------------------------------
(* database_manager.py: the three tables *)

EmptyDb == [spese_giornaliere |-> <<>>, spese_ricorrenti |-> <<>>, conti |-> <<>>]

\* DECIMAL(10,2): an amount is stored rounded to the cent
RoundCents(importo) == ((importo + 5) \div 10) * 10

\* spesa['data'], spesa['categoria'], ... raise KeyError on a record without the key
HasKeys(rec, keys) == keys \subseteq DOMAIN rec

InsertableG(sp) == HasKeys(sp, {"data", "categoria", "descrizione", "importo"})
InsertableR(sp) == HasKeys(sp, {"nome", "categoria", "importo", "frequenza"})
InsertableC(c) == HasKeys(c, {"nome", "tipo"})

NoneIfNessuno(conto) == IF conto = Nessuno THEN None ELSE conto

\* DELETE without its WHERE clause
OthersRows_none(rows, username) == <<>>

\* what DELETE ... WHERE username = %s leaves in a table
OthersRows(rows, username) == SelectSeq(rows, LAMBDA r : r.username # username)

RowG(username, sp) ==
    [username |-> username, data |-> sp.data, categoria |-> sp.categoria,
     descrizione |-> sp.descrizione, importo |-> RoundCents(sp.importo),
     conto |-> NoneIfNessuno(GetConto(sp))]

RowR(username, sp) ==
    [username |-> username, nome |-> sp.nome, categoria |-> sp.categoria,
     importo |-> RoundCents(sp.importo), frequenza |-> sp.frequenza,
     conto |-> NoneIfNessuno(GetConto(sp))]

RowC(username, c, t) ==
    [username |-> username, nome |-> c.nome,
     descrizione |-> IF "descrizione" \in DOMAIN c THEN c.descrizione ELSE None,
     tipo |-> c.tipo, created_at |-> t]

\* One transaction: the user's rows are deleted and the new ones inserted; an
\* exception at any insert (a record without a needed key, or a username that
\* table users does not hold: the foreign key) rolls everything back.
save_expense_data(d, usrs, username, spese_giornaliere, spese_ricorrenti, conti, t) ==
    LET n == Len(spese_giornaliere) + Len(spese_ricorrenti) + Len(conti)
        fails == \/ n > 0 /\ username \notin DOMAIN usrs
                 \/ \E i \in DOMAIN spese_giornaliere : ~ InsertableG(spese_giornaliere[i])
                 \/ \E i \in DOMAIN spese_ricorrenti : ~ InsertableR(spese_ricorrenti[i])
                 \/ \E i \in DOMAIN conti : ~ InsertableC(conti[i])
    IN  IF fails
        THEN [ok |-> FALSE, db |-> d]
        ELSE [ok |-> TRUE,
              db |-> [spese_giornaliere |->
                          OthersRows(d.spese_giornaliere, username)
                          \o [i \in DOMAIN spese_giornaliere |->
                                 RowG(username, spese_giornaliere[i])],
                      spese_ricorrenti |->
                          OthersRows(d.spese_ricorrenti, username)
                          \o [i \in DOMAIN spese_ricorrenti |->
                                 RowR(username, spese_ricorrenti[i])],
                      conti |->
                          OthersRows(d.conti, username)
                          \o [i \in DOMAIN conti |-> RowC(username, conti[i], t)]]]

\* dates are <<year, month, day>>
DateBefore(a, b) ==
    \/ a[1] < b[1]
    \/ a[1] = b[1] /\ a[2] < b[2]
    \/ a[1] = b[1] /\ a[2] = b[2] /\ a[3] < b[3]

\* ORDER BY data DESC; rows of equal date stay in table order
RECURSIVE OrderByDataDesc(_)
OrderByDataDesc(rows) ==
    IF rows = <<>>
    THEN <<>>
    ELSE LET i == CHOOSE i \in DOMAIN rows :
                      /\ \A j \in DOMAIN rows : ~ DateBefore(rows[i].data, rows[j].data)
                      /\ \A j \in 1..(i - 1) : DateBefore(rows[j].data, rows[i].data)
         IN  <<rows[i]>> \o OrderByDataDesc(Pop(rows, i - 1))

\* ORDER BY created_at; rows of equal timestamp stay in table order
RECURSIVE OrderByCreatedAt(_)
OrderByCreatedAt(rows) ==
    IF rows = <<>>
    THEN <<>>
    ELSE LET i == CHOOSE i \in DOMAIN rows :
                      /\ \A j \in DOMAIN rows : rows[i].created_at <= rows[j].created_at
                      /\ \A j \in 1..(i - 1) : rows[j].created_at > rows[i].created_at
         IN  <<rows[i]>> \o OrderByCreatedAt(Pop(rows, i - 1))

OwnRows(rows, username) == SelectSeq(rows, LAMBDA r : r.username = username)

load_expense_data(d, username) ==
    LET g == OrderByDataDesc(OwnRows(d.spese_giornaliere, username))
        r == OwnRows(d.spese_ricorrenti, username)
        c == OrderByCreatedAt(OwnRows(d.conti, username))
    IN  [spese_giornaliere |->
             [i \in DOMAIN g |->
                 [data |-> g[i].data, categoria |-> g[i].categoria,
                  descrizione |-> g[i].descrizione, importo |-> g[i].importo,
                  conto |-> g[i].conto]],
         spese_ricorrenti |->
             [i \in DOMAIN r |->
                 [nome |-> r[i].nome, categoria |-> r[i].categoria,
                  importo |-> r[i].importo, frequenza |-> r[i].frequenza,
                  conto |-> r[i].conto]],
         conti |->
             [i \in DOMAIN c |->
                 [nome |-> c[i].nome, descrizione |-> c[i].descrizione,
                  tipo |-> c[i].tipo, creato_il |-> c[i].created_at]]]

-----------------------------------------------------------------------------
(* Inputs of the login and registration calls *)

GoodPassword == <<"A","b","c","d","e","f","1","!">>
BadPassword == <<"x">>
Passwords == {GoodPassword, BadPassword}

\* both names name one account in either deployment: the file deployment
\* removes the blank, the database deployment strips it
LoginNames == {<<"a","b","c">>, <<"a","b","c"," ">>}

\* os.urandom / bcrypt.gensalt: the salt a registration draws
Salts == {"s1", "s2"}
FixedSalt == "s1"

\* the lockout duration of the running deployment, in seconds
LockSeconds == IF variant = "file" THEN LOCKOUT_DURATION ELSE UiLockoutSeconds

AuthSlack == 2
MaxPeriods == 1
AttemptCap == 6

\* the instants at which calls are made: up to AuthSlack seconds after a whole
\* number of lockout durations
AuthInstants == {k * LockSeconds + j : k \in 0..MaxPeriods, j \in 0..AuthSlack}

\* the session in which the calls of ui_components.py are made
AuthSessions == {1}

Init ==
    /\ variant \in {"file", "db"}
    /\ now = 0
    /\ users = EmptyDict
    /\ attempts_data = EmptyDict
    /\ session = [s \in SessionIds |-> NewSession]
    /\ data_files = EmptyDict
    /\ db = EmptyDb
    /\ result = Res("none", FALSE, "")
    /\ streak = EmptyDict

\* time passes: one second, or one lockout duration
TickAuth ==
    /\ \E d \in {1, LockSeconds} :
          /\ now + d \in AuthInstants
          /\ now' = now + d
    /\ result' = Res("tick", TRUE, "")
    /\ UNCHANGED <<variant, users, attempts_data, session, data_files, db, streak>>

-----------------------------------------------------------------------------
(* File deployment: calls of auth_security.py / ME.py *)

Register(username, password, salt) ==
    /\ variant = "file"
    /\ LET r == register_user(users, username, password, salt) IN
          /\ users' = r.users
          /\ result' = [Res("register", r.ok, r.msg) EXCEPT !.key = sanitize_username(username)]
    /\ UNCHANGED <<variant, now, attempts_data, session, data_files, db, streak>>

AuthCall(username, password) ==
    /\ variant = "file"
    /\ LET r == authenticate_user(users, attempts_data, username, password, now)
           k == sanitize_username(username)
       IN  /\ attempts_data' = r.attempts
           /\ result' = [Res("authenticate", r.ok, r.msg) EXCEPT
                            !.key = k, !.password = password,
                            !.locked = (r.msg = "Account bloccato"),
                            !.remaining = r.remaining]
           /\ streak' = StreakAfter(<<0, k>>, r.ok, r.msg)
    /\ UNCHANGED <<variant, now, users, session, data_files, db>>

LockCheck(username) ==
    /\ variant = "file"
    /\ LET r == is_account_locked(attempts_data, username, now) IN
          /\ attempts_data' = r.attempts
          /\ result' = [Res("lock_check", TRUE, "") EXCEPT
                           !.key = sanitize_username(username),
                           !.locked = r.locked, !.remaining = r.remaining]
    /\ UNCHANGED <<variant, now, users, session, data_files, db, streak>>

-----------------------------------------------------------------------------
(* Database deployment: calls of ui_components.py made in session s *)

UiRegister(username, password, salt) ==
    /\ variant = "db"
    /\ LET r == ui_register_user(users, username, password, <<>>, salt) IN
          /\ users' = r.users
          /\ result' = [Res("register", r.ok, r.msg) EXCEPT !.key = lower(strip(username))]
    /\ UNCHANGED <<variant, now, attempts_data, session, data_files, db, streak>>

UiAuthCall(s, username, password) ==
    /\ variant = "db"
    /\ LET k == lower(strip(username))
           la == session[s].login_attempts
           r == ui_authenticate_user(users, la, username, password, now)
       IN  /\ k \in DOMAIN la => la[k].count < AttemptCap
           /\ session' = [session EXCEPT ![s].login_attempts = r.login_attempts]
           /\ result' = [Res("authenticate", r.ok, r.msg) EXCEPT
                            !.sid = s, !.key = k, !.password = password]
           /\ streak' = StreakAfter(<<s, k>>, r.ok, r.msg)
    /\ UNCHANGED <<variant, now, users, attempts_data, data_files, db>>

UiLockCheck(s, username) ==
    /\ variant = "db"
    /\ LET r == is_locked_out(session[s].login_attempts, username, now) IN
          result' = [Res("lock_check", TRUE, "") EXCEPT
                        !.sid = s, !.key = username, !.locked = r[1], !.remaining = r[2]]
    /\ UNCHANGED <<variant, now, users, attempts_data, session, data_files, db, streak>>

-----------------------------------------------------------------------------
(* ME.py: one request of session s.  Streamlit runs the script from the top   *)
(* on every interaction: the timeout check (lines 424-434) and, for an        *)
(* authenticated session, carica_dati (line 617) come before any handler.     *)
(* The page shown (current_page) is not modelled.                             *)

MePrologue(s) ==
    LET chk == IF session[s].authenticated
               THEN check_session_timeout(session[s], now)
               ELSE [expired |-> FALSE, session |-> session[s]]
    IN  IF chk.expired
        THEN [expired |-> TRUE, session |-> ClearedSession(session[s])]
        ELSE [expired |-> FALSE,
              session |-> IF session[s].authenticated
                          THEN carica_dati(chk.session, data_files)
                          ELSE chk.session]

\* the request of an expired session ends at the forced logout
MeExpired(s, pro) ==
    /\ session' = [session EXCEPT ![s] = pro.session]
    /\ result' = [Res("session_expired", FALSE, "Sessione scaduta") EXCEPT !.sid = s]
    /\ UNCHANGED <<variant, now, users, attempts_data, data_files, db, streak>>

\* login_form, tab "Login" (lines 343-369), and the rerun that follows a success
MeLogin(s, username, password) ==
    /\ variant = "file"
    /\ ~ session[s].authenticated
    /\ LET username_clean == sanitize_username(username)
           lock == is_account_locked(attempts_data, username_clean, now)
           r == authenticate_user(users, lock.attempts, username, password, now)
           logged == [session[s] EXCEPT !.authenticated = TRUE,
                                        !.username = username_clean,
                                        !.display_username = username,
                                        !.last_activity = now]
       IN  IF username = <<>> \/ password = <<>>
           THEN /\ result' = [Res("login", FALSE, "Inserisci username e password")
                                 EXCEPT !.sid = s]
                /\ UNCHANGED <<attempts_data, session, streak>>
           ELSE IF lock.locked
           THEN /\ attempts_data' = lock.attempts
                /\ result' = [Res("login", FALSE, "Account bloccato") EXCEPT
                                 !.sid = s, !.key = username_clean, !.password = password,
                                 !.locked = TRUE, !.remaining = lock.remaining]
                /\ UNCHANGED <<session, streak>>
           ELSE /\ attempts_data' = r.attempts
                /\ session' = [session EXCEPT ![s] =
                                  IF r.ok
                                  THEN carica_dati(check_session_timeout(logged, now).session,
                                                   data_files)
                                  ELSE session[s]]
                /\ result' = [Res("login", r.ok, r.msg) EXCEPT
                                 !.sid = s, !.key = username_clean, !.password = password,
                                 !.locked = (r.msg = "Account bloccato"),
                                 !.remaining = r.remaining]
                /\ streak' = StreakAfter(<<0, username_clean>>, r.ok, r.msg)
    /\ UNCHANGED <<variant, now, users, data_files, db>>

\* the Logout button (lines 644-654)
MeLogout(s) ==
    /\ variant = "file"
    /\ session[s].authenticated
    /\ LET pro == MePrologue(s) IN
          IF pro.expired
          THEN MeExpired(s, pro)
          ELSE /\ session' = [session EXCEPT ![s] = ClearedSession(pro.session)]
               /\ result' = [Res("logout", TRUE, "Logout effettuato") EXCEPT !.sid = s]
               /\ UNCHANGED <<variant, now, users, attempts_data, data_files, db, streak>>

-----------------------------------------------------------------------------
(* ui_components.py: LoginForm._show_login_tab (lines 527-549) *)

UiLoginTab(s, username, password) ==
    /\ variant = "db"
    /\ ~ session[s].authenticated
    /\ LET k == lower(strip(username))
           la == session[s].login_attempts
           r == ui_authenticate_user(users, la, username, password, now)
       IN  IF PyTruthyTuple(is_locked_out(la, username, now))
           THEN /\ result' = [Res("login", FALSE, "Account temporaneamente bloccato") EXCEPT
                                 !.sid = s, !.key = k, !.password = password,
                                 !.locked = TRUE]
                /\ UNCHANGED <<session, streak>>
           ELSE /\ session' = [session EXCEPT ![s] =
                                  IF r.ok
                                  THEN [session[s] EXCEPT
                                           !.login_attempts =
                                               reset_attempts(r.login_attempts, username),
                                           !.authenticated = TRUE,
                                           !.username = username,
                                           !.display_username = r.msg,
                                           !.last_activity = now]
                                  ELSE [session[s] EXCEPT
                                           !.login_attempts =
                                               record_failed_attempt(r.login_attempts,
                                                                     username, now)]]
                /\ result' = [Res("login", r.ok, r.msg) EXCEPT
                                 !.sid = s, !.key = k, !.password = password]
                /\ streak' = StreakAfter(<<s, k>>, r.ok, r.msg)
    /\ UNCHANGED <<variant, now, users, attempts_data, data_files, db>>

-----------------------------------------------------------------------------
(* ME.py: requests of an authenticated session.  Every one starts with       *)
(* MePrologue; result.key names the user the request acted for.              *)

\* the session lists a request of session s works on
MeLoaded(s) == MePrologue(s).session

\* a rerun with no button pressed: a page is shown
MeView(s) ==
    /\ variant = "file"
    /\ session[s].authenticated
    /\ LET pro == MePrologue(s) IN
          IF pro.expired
          THEN MeExpired(s, pro)
          ELSE /\ session' = [session EXCEPT ![s] = pro.session]
               /\ result' = [Res("view", TRUE, "") EXCEPT
                                !.sid = s, !.key = pro.session.username]
               /\ UNCHANGED <<variant, now, users, attempts_data, data_files, db, streak>>

\* form_nuovo_conto (lines 711-722)
MeAddConto(s, nome_conto, descrizione_conto, tipo_conto) ==
    /\ variant = "file"
    /\ session[s].authenticated
    /\ LET pro == MePrologue(s)
           cur == pro.session
           conti2 == aggiungi_conto(cur.conti, strip(nome_conto),
                                    strip(descrizione_conto), tipo_conto, now)
           saved == salva_dati(data_files, cur.username, cur.spese_giornaliere,
                               cur.spese_ricorrenti, conti2)
       IN  IF pro.expired
           THEN MeExpired(s, pro)
           ELSE IF strip(nome_conto) = <<>>
           THEN /\ session' = [session EXCEPT ![s] = cur]
                /\ result' = [Res("add_account", FALSE, "Il nome del conto e' obbligatorio")
                                 EXCEPT !.sid = s, !.key = cur.username]
                /\ UNCHANGED <<variant, now, users, attempts_data, data_files, db, streak>>
           ELSE IF \E i \in DOMAIN cur.conti : "nome" \notin DOMAIN cur.conti[i]
           THEN /\ session' = [session EXCEPT ![s] = cur]
                /\ result' = [Res("add_account", FALSE, "KeyError")
                                 EXCEPT !.sid = s, !.key = cur.username]
                /\ UNCHANGED <<variant, now, users, attempts_data, data_files, db, streak>>
           ELSE IF lower(nome_conto) \in {lower(cur.conti[i].nome) : i \in DOMAIN cur.conti}
           THEN /\ session' = [session EXCEPT ![s] = cur]
                /\ result' = [Res("add_account", FALSE, "Esiste gia' un conto con questo nome")
                                 EXCEPT !.sid = s, !.key = cur.username]
                /\ UNCHANGED <<variant, now, users, attempts_data, data_files, db, streak>>
           ELSE /\ session' = [session EXCEPT ![s] = [cur EXCEPT !.conti = conti2]]
                /\ data_files' = saved.files
                /\ result' = [Res("add_account", saved.ok, "Conto aggiunto")
                                 EXCEPT !.sid = s, !.key = cur.username]
                /\ UNCHANGED <<variant, now, users, attempts_data, db, streak>>

\* the bin button of account row idx (lines 747-753); a button exists for the
\* rows of the list this run shows
MeDeleteConto(s, idx) ==
    /\ variant = "file"
    /\ session[s].authenticated
    /\ LET pro == MePrologue(s)
           cur == pro.session
           r == elimina_conto(cur.conti, cur.spese_giornaliere, cur.spese_ricorrenti, idx)
           saved == salva_dati(data_files, cur.username, cur.spese_giornaliere,
                               cur.spese_ricorrenti, r.conti)
       IN  IF pro.expired
           THEN MeExpired(s, pro)
           ELSE /\ idx < Len(cur.conti)
                /\ session' = [session EXCEPT ![s] = [cur EXCEPT !.conti = r.conti]]
                /\ data_files' = IF r.ok THEN saved.files ELSE data_files
                /\ result' = [Res("delete_account", r.ok /\ saved.ok, r.msg) EXCEPT
                                 !.sid = s, !.key = cur.username, !.indice = idx,
                                 !.daily_count = r.daily_count,
                                 !.recurring_count = r.recurring_count]
                /\ UNCHANGED <<variant, now, users, attempts_data, db, streak>>

\* what the account selectbox of the expense forms offers
ContiOptions(conti_list) ==
    {Nessuno} \cup {conti_list[i].nome : i \in {j \in DOMAIN conti_list :
                                                   "nome" \in DOMAIN conti_list[j]}}

\* form_spesa_giornaliera (lines 1147-1174)
MeAddDaily(s, data, categoria, descrizione, importo, conto_selezionato) ==
    /\ variant = "file"
    /\ session[s].authenticated
    /\ LET pro == MePrologue(s)
           cur == pro.session
           conto_finale == IF conto_selezionato = Nessuno THEN None ELSE conto_selezionato
           spese2 == aggiungi_spesa_giornaliera(cur.spese_giornaliere, data, categoria,
                                                descrizione, importo, conto_finale)
           saved == salva_dati(data_files, cur.username, spese2, cur.spese_ricorrenti,
                               cur.conti)
       IN  IF pro.expired
           THEN MeExpired(s, pro)
           ELSE /\ conto_selezionato \in ContiOptions(cur.conti)
                /\ IF descrizione # <<>> /\ importo > 0
                   THEN /\ session' = [session EXCEPT ![s] =
                                          [cur EXCEPT !.spese_giornaliere = spese2]]
                        /\ data_files' = saved.files
                        /\ result' = [Res("add_daily", saved.ok, "Spesa aggiunta")
                                         EXCEPT !.sid = s, !.key = cur.username]
                   ELSE /\ session' = [session EXCEPT ![s] = cur]
                        /\ data_files' = data_files
                        /\ result' = [Res("add_daily", FALSE, "Compila tutti i campi")
                                         EXCEPT !.sid = s, !.key = cur.username]
                /\ UNCHANGED <<variant, now, users, attempts_data, db, streak>>

\* form_spesa_ricorrente (lines 1198-1226)
MeAddRecurring(s, nome, categoria, importo, frequenza, conto_selezionato) ==
    /\ variant = "file"
    /\ session[s].authenticated
    /\ LET pro == MePrologue(s)
           cur == pro.session
           conto_finale == IF conto_selezionato = Nessuno THEN None ELSE conto_selezionato
           spese2 == aggiungi_spesa_ricorrente(cur.spese_ricorrenti, nome, categoria,
                                               importo, frequenza, conto_finale)
           saved == salva_dati(data_files, cur.username, cur.spese_giornaliere, spese2,
                               cur.conti)
       IN  IF pro.expired
           THEN MeExpired(s, pro)
           ELSE /\ conto_selezionato \in ContiOptions(cur.conti)
                /\ IF nome # <<>> /\ importo > 0
                   THEN /\ session' = [session EXCEPT ![s] =
                                          [cur EXCEPT !.spese_ricorrenti = spese2]]
                        /\ data_files' = saved.files
                        /\ result' = [Res("add_recurring", saved.ok, "Spesa aggiunta")
                                         EXCEPT !.sid = s, !.key = cur.username]
                   ELSE /\ session' = [session EXCEPT ![s] = cur]
                        /\ data_files' = data_files
                        /\ result' = [Res("add_recurring", FALSE, "Compila tutti i campi")
                                         EXCEPT !.sid = s, !.key = cur.username]
                /\ UNCHANGED <<variant, now, users, attempts_data, db, streak>>

\* the bin button of daily expense row idx (lines 1288-1291)
MeDeleteDaily(s, idx) ==
    /\ variant = "file"
    /\ session[s].authenticated
    /\ LET pro == MePrologue(s)
           cur == pro.session
           spese2 == elimina_spesa_giornaliera(cur.spese_giornaliere, idx)
           saved == salva_dati(data_files, cur.username, spese2, cur.spese_ricorrenti,
                               cur.conti)
       IN  IF pro.expired
           THEN MeExpired(s, pro)
           ELSE /\ idx < Len(cur.spese_giornaliere)
                /\ session' = [session EXCEPT ![s] = [cur EXCEPT !.spese_giornaliere = spese2]]
                /\ data_files' = saved.files
                /\ result' = [Res("delete_daily", saved.ok, "Spesa eliminata") EXCEPT
                                 !.sid = s, !.key = cur.username, !.indice = idx]
                /\ UNCHANGED <<variant, now, users, attempts_data, db, streak>>

\* the bin button of recurring expense row idx (lines 1316-1319)
MeDeleteRecurring(s, idx) ==
    /\ variant = "file"
    /\ session[s].authenticated
    /\ LET pro == MePrologue(s)
           cur == pro.session
           spese2 == elimina_spesa_ricorrente(cur.spese_ricorrenti, idx)
           saved == salva_dati(data_files, cur.username, cur.spese_giornaliere, spese2,
                               cur.conti)
       IN  IF pro.expired
           THEN MeExpired(s, pro)
           ELSE /\ idx < Len(cur.spese_ricorrenti)
                /\ session' = [session EXCEPT ![s] = [cur EXCEPT !.spese_ricorrenti = spese2]]
                /\ data_files' = saved.files
                /\ result' = [Res("delete_recurring", saved.ok, "Spesa eliminata") EXCEPT
                                 !.sid = s, !.key = cur.username, !.indice = idx]
                /\ UNCHANGED <<variant, now, users, attempts_data, db, streak>>

\* the button "Ripristina Backup" (lines 1346-1353)
MeRestore(s, blob) ==
    /\ variant = "file"
    /\ session[s].authenticated
    /\ LET pro == MePrologue(s)
           r == carica_backup(pro.session, data_files, blob)
       IN  IF pro.expired
           THEN MeExpired(s, pro)
           ELSE /\ session' = [session EXCEPT ![s] = r.session]
                /\ data_files' = r.files
                /\ result' = [Res("restore", r.ok, "") EXCEPT
                                 !.sid = s, !.key = pro.session.username]
                /\ UNCHANGED <<variant, now, users, attempts_data, db, streak>>

\* change_password_form (lines 924-940); the two new-password fields agree
MeChangePassword(s, current_password, new_password, salt) ==
    /\ variant = "file"
    /\ session[s].authenticated
    /\ LET pro == MePrologue(s)
           r == change_password(users, attempts_data, pro.session.username,
                                current_password, new_password, salt, now)
       IN  IF pro.expired
           THEN MeExpired(s, pro)
           ELSE /\ session' = [session EXCEPT ![s] = pro.session]
                /\ users' = r.users
                /\ attempts_data' = r.attempts
                /\ result' = [Res("change_password", r.ok, r.msg) EXCEPT
                                 !.sid = s, !.key = pro.session.username,
                                 !.password = new_password]
                /\ streak' = StreakAfter(<<0, sanitize_username(pro.session.username)>>,
                                         r.auth.ok, r.auth.msg)
                /\ UNCHANGED <<variant, now, data_files, db>>

-----------------------------------------------------------------------------
(* ui_components.py: SessionManager.check_session_timeout called for session s *)

UiSessionCheck(s) ==
    /\ variant = "db"
    /\ LET r == ui_check_session_timeout(session[s], now) IN
          /\ session' = [session EXCEPT ![s] = r.session]
          /\ result' = [Res("timeout_check", ~ r.expired, "") EXCEPT !.sid = s]
    /\ UNCHANGED <<variant, now, users, attempts_data, data_files, db, streak>>

-----------------------------------------------------------------------------
(* Database deployment: calls of DataManager (ui_components.py lines 169-186, *)
(* expense_manager.py lines 164-182) for a username                           *)

DbSave(username, spese_giornaliere, spese_ricorrenti, conti) ==
    /\ variant = "db"
    /\ LET r == save_expense_data(db, users, username, spese_giornaliere,
                                  spese_ricorrenti, conti, now)
       IN  /\ db' = r.db
           /\ result' = [Res("db_save", r.ok, "") EXCEPT !.key = username]
    /\ UNCHANGED <<variant, now, users, attempts_data, session, data_files, streak>>

DbLoad(username) ==
    /\ variant = "db"
    /\ LET r == load_expense_data(db, username) IN
          result' = [Res("db_load", TRUE, "") EXCEPT
                        !.key = username,
                        !.loaded = <<r.spese_giornaliere, r.spese_ricorrenti, r.conti>>]
    /\ UNCHANGED <<variant, now, users, attempts_data, session, data_files, db, streak>>

NextAuth ==
    \/ TickAuth
    \/ \E u \in LoginNames, p \in Passwords, salt \in Salts : Register(u, p, salt)
    \/ \E u \in LoginNames, p \in Passwords : AuthCall(u, p)
    \/ \E u \in LoginNames : LockCheck(u)
    \/ \E s \in AuthSessions, u \in LoginNames, p \in Passwords : MeLogin(s, u, p)
    \/ \E s \in AuthSessions : MeLogout(s)
    \/ \E u \in LoginNames, p \in Passwords, salt \in Salts : UiRegister(u, p, salt)
    \/ \E s \in AuthSessions, u \in LoginNames, p \in Passwords : UiAuthCall(s, u, p)
    \/ \E s \in AuthSessions, u \in LoginNames : UiLockCheck(s, u)
    \/ \E s \in AuthSessions, u \in LoginNames, p \in Passwords : UiLoginTab(s, u, p)

SpecAuth == Init /\ [][NextAuth]_vars

-----------------------------------------------------------------------------
(* Sessions that time out: one user, two browser sessions *)

\* the session timeout of the running deployment, in seconds
SessionSeconds == IF variant = "file" THEN SESSION_TIMEOUT ELSE UI_SESSION_TIMEOUT * 60

SessionSlack == 1
MaxSessionPeriods == 1
SessionInstants ==
    {k * SessionSeconds + j : k \in 0..MaxSessionPeriods, j \in 0..SessionSlack}

TickSession ==
    /\ \E d \in {1, SessionSeconds} :
          /\ now + d \in SessionInstants
          /\ now' = now + d
    /\ result' = Res("tick", TRUE, "")
    /\ UNCHANGED <<variant, users, attempts_data, session, data_files, db, streak>>

SessionName == <<"a","b","c">>
ContoC == <<"c">>
Day1 == <<2024, 1, 15>>
EmptyBackup == [kind |-> "object", obj |-> EmptyDict]

MaxSessionList == 1

NextSession ==
    \/ TickSession
    \/ /\ users = EmptyDict
       /\ Register(SessionName, GoodPassword, FixedSalt)
    \/ \E s \in SessionIds : MeLogin(s, SessionName, GoodPassword)
    \/ \E s \in SessionIds : MeLogout(s)
    \/ \E s \in SessionIds : MeView(s)
    \/ \E s \in SessionIds :
          /\ Len(MeLoaded(s).conti) < MaxSessionList
          /\ MeAddConto(s, ContoC, <<>>, "Personale")
    \/ \E s \in SessionIds : MeDeleteConto(s, 0)
    \/ \E s \in SessionIds : MeRestore(s, EmptyBackup)
    \/ \E s \in SessionIds : MeChangePassword(s, GoodPassword, GoodPassword, FixedSalt)
    \/ \E s \in SessionIds : UiSessionCheck(s)

SpecSession == Init /\ [][NextSession]_vars

\* C5: a request made by an authenticated session whose last activity is
\* older than the session timeout ends in the forced logout: it clears the
\* authentication flag, the username and the three collections of the
\* session, and no operation of the request touches the credential file, the
\* attempts file or a data file.
C5_ExpiredSessionIsClearedFirst ==
    [][\A s \in SessionIds :
          (/\ session[s].authenticated
           /\ session[s].last_activity # NoTime
           /\ now - session[s].last_activity > SessionSeconds
           /\ result'.sid = s)
          => /\ result'.op = "session_expired"
             /\ ~ session'[s].authenticated
             /\ session'[s].username = None
             /\ session'[s].spese_giornaliere = <<>>
             /\ session'[s].spese_ricorrenti = <<>>
             /\ session'[s].conti = <<>>
             /\ UNCHANGED <<users, attempts_data, data_files, db>>]_vars

\* a session holding an account was logged out by the timeout
C5_Witness ==
    /\ result.op = "session_expired"
    /\ ~ session[result.sid].authenticated
    /\ session[result.sid].conti = <<>>
    /\ \E f \in DOMAIN data_files : data_files[f].conti # <<>>

-----------------------------------------------------------------------------
(* Accounts and expenses of one user, in one session *)

InitFile == Init /\ variant = "file"

AccountSessions == {1}
AccountNames == {<<"c">>, <<" ","C">>, <<"d">>}
\* what the expense forms select as account
ExpenseContos == {Nessuno, ContoC}

MaxConti == 2
MaxDaily == 1
MaxRecurring == 1

NextAccounts ==
    \/ /\ users = EmptyDict
       /\ Register(SessionName, GoodPassword, FixedSalt)
    \/ \E s \in AccountSessions : MeLogin(s, SessionName, GoodPassword)
    \/ \E s \in AccountSessions, nome \in AccountNames :
          /\ Len(MeLoaded(s).conti) < MaxConti
          /\ MeAddConto(s, nome, <<>>, "Personale")
    \/ \E s \in AccountSessions, idx \in 0..(MaxConti - 1) : MeDeleteConto(s, idx)
    \/ \E s \in AccountSessions, conto \in ExpenseContos :
          /\ Len(MeLoaded(s).spese_giornaliere) < MaxDaily
          /\ MeAddDaily(s, Day1, "Altro", <<"x">>, 1000, conto)
    \/ \E s \in AccountSessions, conto \in ExpenseContos :
          /\ Len(MeLoaded(s).spese_ricorrenti) < MaxRecurring
          /\ MeAddRecurring(s, <<"r">>, "Altro", 1000, "Mensile", conto)
    \/ \E s \in AccountSessions, idx \in 0..(MaxDaily - 1) : MeDeleteDaily(s, idx)
    \/ \E s \in AccountSessions, idx \in 0..(MaxRecurring - 1) : MeDeleteRecurring(s, idx)

SpecAccounts == InitFile /\ [][NextAccounts]_vars

\* how many records of a list refer to the account named nome
Referencing(spese_list, nome) ==
    Cardinality({i \in DOMAIN spese_list : GetConto(spese_list[i]) = nome})

C8_AccountNamesUnique ==
    \A s \in SessionIds :
        \A i, j \in DOMAIN session[s].conti :
            i # j => lower(session[s].conti[i].nome) # lower(session[s].conti[j].nome)

\* C9: the accounts of a user have pairwise distinct ids.
C9_AccountIdsDistinct ==
    \A s \in SessionIds :
        \A i, j \in DOMAIN session[s].conti :
            i # j => session[s].conti[i].id # session[s].conti[j].id

-----------------------------------------------------------------------------
(* Two users and their stored data *)

StoreNames == {<<"a","b","c">>, <<"a","b","d">>}

\* the user that logs in from each browser session
UserOf(s) == IF s = 1 THEN <<"a","b","c">> ELSE <<"a","b","d">>

ContoRec == [id |-> 1, nome |-> ContoC, descrizione |-> <<>>, tipo |-> "Personale",
             creato_il |-> 0]
DailyRec == [data |-> Day1, categoria |-> "Altro", descrizione |-> <<"x">>,
             importo |-> 1004, conto |-> Nessuno]
DailyRec2 == [data |-> Day1, categoria |-> "Casa", descrizione |-> <<"y">>,
              importo |-> 2000, conto |-> ContoC]
RecurringRec == [nome |-> <<"r">>, categoria |-> "Altro", importo |-> 1000,
                 frequenza |-> "Mensile", conto |-> None]
\* a record whose name json.loads built from the escape \ud800
RecurringSurrogate == [nome |-> <<LoneSurrogate>>, categoria |-> "Altro", importo |-> 1000,
                       frequenza |-> "Mensile", conto |-> None]
\* a record without the key 'frequenza'
RecurringNoFrequenza == [nome |-> <<"r">>, categoria |-> "Altro", importo |-> 1000]

StoreBlobs ==
    { [kind |-> "notjson", obj |-> EmptyDict],
      [kind |-> "array", obj |-> EmptyDict],
      [kind |-> "object", obj |-> [spese_giornaliere |-> <<DailyRec2>>,
                                   conti |-> <<ContoRec>>]],
      [kind |-> "object", obj |-> [spese_giornaliere |-> <<DailyRec2>>,
                                   spese_ricorrenti |-> <<RecurringSurrogate>>,
                                   conti |-> <<ContoRec>>]] }

\* the three lists handed to a save
SaveInputs ==
    { <<<<>>, <<>>, <<>>>>,
      <<<<DailyRec>>, <<RecurringRec>>, <<ContoRec>>>>,
      <<<<DailyRec2>>, <<>>, <<>>>>,
      <<<<DailyRec2>>, <<RecurringNoFrequenza>>, <<ContoRec>>>> }

MaxStoreList == 1

NextStore ==
    \/ \E u \in StoreNames :
          /\ u \notin DOMAIN users
          /\ Register(u, GoodPassword, FixedSalt)
    \/ \E s \in SessionIds : MeLogin(s, UserOf(s), GoodPassword)
    \/ \E s \in SessionIds : MeView(s)
    \/ \E s \in SessionIds :
          /\ Len(MeLoaded(s).conti) < MaxStoreList
          /\ MeAddConto(s, ContoC, <<>>, "Personale")
    \/ \E s \in SessionIds : MeDeleteConto(s, 0)
    \/ \E s \in SessionIds :
          /\ Len(MeLoaded(s).spese_giornaliere) < MaxStoreList
          /\ MeAddDaily(s, Day1, "Altro", <<"x">>, 1004, Nessuno)
    \/ \E s \in SessionIds : MeDeleteDaily(s, 0)
    \/ \E s \in SessionIds, blob \in StoreBlobs : MeRestore(s, blob)
    \/ \E u \in StoreNames :
          /\ u \notin DOMAIN users
          /\ UiRegister(u, GoodPassword, FixedSalt)
    \/ \E u \in StoreNames, in \in SaveInputs : DbSave(u, in[1], in[2], in[3])
    \/ \E u \in StoreNames : DbLoad(u)

SpecStore == Init /\ [][NextStore]_vars

\* the rows of a table that carry username u
RowsOf(rows, u) == SelectSeq(rows, LAMBDA r : r.username = u)

\* what is stored for user u: the user's data file, or the user's rows
StoredFor(u, files, d) ==
    IF variant = "file"
    THEN IF get_user_data_file(u) \in DOMAIN files
         THEN <<files[get_user_data_file(u)]>>
         ELSE <<>>
    ELSE <<RowsOf(d.spese_giornaliere, u), RowsOf(d.spese_ricorrenti, u),
           RowsOf(d.conti, u)>>

StoreOps ==
    {"view", "add_account", "delete_account", "add_daily", "delete_daily",
     "add_recurring", "delete_recurring", "restore", "db_save", "db_load"}

\* C6: an operation made for user A leaves what is stored for every other
\* user as it was, and the lists a load returns for A hold one record for
\* each stored row of A and none that is not a row of A.
C6_CrossUserIsolation ==
    [][result'.op \in StoreOps =>
          /\ \A u \in StoreNames :
                u # result'.key
                    => StoredFor(u, data_files', db') = StoredFor(u, data_files, db)
          /\ result'.op = "db_load" =>
                /\ Len(result'.loaded[1]) = Len(RowsOf(db.spese_giornaliere, result'.key))
                /\ Len(result'.loaded[2]) = Len(RowsOf(db.spese_ricorrenti, result'.key))
                /\ Len(result'.loaded[3]) = Len(RowsOf(db.conti, result'.key))
                /\ \A i \in DOMAIN result'.loaded[1] :
                      \E j \in DOMAIN db.spese_giornaliere :
                          /\ db.spese_giornaliere[j].username = result'.key
                          /\ db.spese_giornaliere[j].descrizione
                                = result'.loaded[1][i].descrizione
                          /\ db.spese_giornaliere[j].importo = result'.loaded[1][i].importo
          /\ result'.op = "view" =>
                \A f \in DOMAIN data_files :
                    (f = get_user_data_file(result'.key) /\ data_files[f].complete)
                        => /\ session'[result'.sid].spese_giornaliere
                                 = data_files[f].spese_giornaliere
                           /\ session'[result'.sid].spese_ricorrenti
                                 = data_files[f].spese_ricorrenti
                           /\ session'[result'.sid].conti = data_files[f].conti]_vars

\* both users have stored data, and they differ
C6_Witness ==
    /\ result.op \in {"add_daily", "db_save", "restore"}
    /\ result.ok
    /\ \A u \in StoreNames : StoredFor(u, data_files, db) \notin {<<>>, <<<<>>, <<>>, <<>>>>}
    /\ \E u, v \in StoreNames : StoredFor(u, data_files, db) # StoredFor(v, data_files, db)

\* C10: a save or restore that fails leaves the three stored collections and
\* the three collections of the session as they were; one that succeeds
\* leaves the store holding the session's three collections.
C10_SaveRestoreAllOrNothing ==
    [][result'.op \in {"restore", "db_save"} =>
          /\ ~ result'.ok =>
                /\ UNCHANGED <<data_files, db>>
                /\ result'.op = "restore" =>
                      /\ session'[result'.sid].spese_giornaliere
                            = MeLoaded(result'.sid).spese_giornaliere
                      /\ session'[result'.sid].spese_ricorrenti
                            = MeLoaded(result'.sid).spese_ricorrenti
                      /\ session'[result'.sid].conti = MeLoaded(result'.sid).conti
          /\ (result'.ok /\ result'.op = "restore") =>
                LET f == data_files'[get_user_data_file(result'.key)] IN
                /\ f.complete
                /\ f.spese_giornaliere = session'[result'.sid].spese_giornaliere
                /\ f.spese_ricorrenti = session'[result'.sid].spese_ricorrenti
                /\ f.conti = session'[result'.sid].conti]_vars

-----------------------------------------------------------------------------
(* Lockout properties *)

\* the key under which a deployment records the attempts of a username
KeyOf(username) ==
    IF variant = "file" THEN sanitize_username(username) ELSE lower(strip(username))

\* the attempts file is shared; the tracker of ui_components.py is one per session
TrackerKey(sid, k) == <<IF variant = "file" THEN 0 ELSE sid, k>>

\* the failed-attempt counter recorded for key k
CounterOf(att, sess, sid, k) ==
    IF variant = "file"
    THEN IF k \in DOMAIN att THEN att[k].failed_attempts ELSE 0
    ELSE IF k \in DOMAIN sess[sid].login_attempts
         THEN sess[sid].login_attempts[k].count
         ELSE 0

\* what the lock check of the deployment answers now
IsLocked(sid, k) ==
    IF variant = "file"
    THEN is_account_locked(attempts_data, k, now).locked
    ELSE is_locked_out(session[sid].login_attempts, k, now)[1]

CorrectCredentials(k, password) ==
    /\ k \in DOMAIN users
    /\ IF variant = "file"
       THEN hash_password_secure(password, users[k].salt) = users[k].password_hash
       ELSE verify_password(password, users[k].password_hash)

\* C1: after exactly MAX_LOGIN_ATTEMPTS failed authenticate calls in a row for
\* a username, an authenticate call with the correct password made before the
\* lockout duration has elapsed since the last of them fails as locked.
C1_LockedAfterFiveFailures ==
    [][(/\ result'.op = "authenticate"
        /\ CorrectCredentials(result'.key, result'.password)
        /\ StreakOf(TrackerKey(result'.sid, result'.key)).n = MAX_LOGIN_ATTEMPTS
        /\ now - StreakOf(TrackerKey(result'.sid, result'.key)).at < LockSeconds)
       => result'.locked /\ ~ result'.ok]_vars

\* C2: a login through the login form with correct credentials succeeds when
\* fewer than MAX_LOGIN_ATTEMPTS failures are recorded for the username.
C2_FormLoginOpenBelowThreshold ==
    [][(/\ result'.op = "login"
        /\ CounterOf(attempts_data, session, result'.sid, result'.key) < MAX_LOGIN_ATTEMPTS
        /\ CorrectCredentials(result'.key, result'.password))
       => result'.ok]_vars

\* C3: a successful authenticate leaves the failed-attempt counter of the
\* username at zero, and the lock check reports a username locked only when
\* its last MAX_LOGIN_ATTEMPTS authenticate calls in a row failed: failures
\* separated by a success never add up to a lock.
C3_OnlyConsecutiveFailuresLock ==
    /\ [](\A s \in AuthSessions, u \in LoginNames :
             IsLocked(s, KeyOf(u))
                 => StreakOf(TrackerKey(s, KeyOf(u))).n >= MAX_LOGIN_ATTEMPTS)
    /\ [][(result'.op \in {"authenticate", "login"} /\ result'.ok)
             => CounterOf(attempts_data', session', result'.sid, result'.key) = 0]_vars

\* 4 failures, a success, 4 failures: the counter is 4 and the username is open
C3_Witness ==
    \E s \in AuthSessions, u \in LoginNames :
        /\ StreakOf(TrackerKey(s, KeyOf(u))).reset
        /\ StreakOf(TrackerKey(s, KeyOf(u))).n = MAX_LOGIN_ATTEMPTS - 1
        /\ CounterOf(attempts_data, session, s, KeyOf(u)) = MAX_LOGIN_ATTEMPTS - 1
        /\ ~ IsLocked(s, KeyOf(u))

\* C4 as stated: with MAX_LOGIN_ATTEMPTS failures recorded, the lock check
\* reports locked exactly while less than the lockout duration has elapsed
\* since the last failed attempt.
C4_OpenOnceDurationElapsed ==
    [][(/\ result'.op = "lock_check"
        /\ CounterOf(attempts_data, session, result'.sid, result'.key)
              >= MAX_LOGIN_ATTEMPTS)
       => (result'.locked
             <=> now - StreakOf(TrackerKey(result'.sid, result'.key)).at < LockSeconds)]_vars

\* C4 amended: the tracker of ui_components.py reports locked exactly while
\* less than LOCKOUT_TIME has elapsed since the last failed attempt; the
\* attempts file reports locked while at most LOCKOUT_DURATION has elapsed, so
\* it is still locked at the instant the duration ends and open after it.
C4_OpenAfterDuration ==
    [][(/\ result'.op = "lock_check"
        /\ CounterOf(attempts_data, session, result'.sid, result'.key)
              >= MAX_LOGIN_ATTEMPTS)
       => (result'.locked
             <=> IF variant = "file"
                 THEN now - StreakOf(TrackerKey(result'.sid, result'.key)).at
                         <= LOCKOUT_DURATION
                 ELSE now - StreakOf(TrackerKey(result'.sid, result'.key)).at
                         < UiLockoutSeconds)]_vars

\* a lock check made after the lockout has run out answers not locked
C4_Witness ==
    /\ result.op = "lock_check"
    /\ ~ result.locked
    /\ StreakOf(TrackerKey(result.sid, result.key)).n >= MAX_LOGIN_ATTEMPTS
    /\ now - StreakOf(TrackerKey(result.sid, result.key)).at >= LockSeconds

-----------------------------------------------------------------------------
(* Backups: export and import *)

\* json.dumps of the three lists: text, numbers and None come back from
\* json.loads as they went in; the document is an object
json_dumps(obj) == [kind |-> "object", obj |-> obj]

\* expense_manager.DataManager.carica_backup: data.get(key, []) for each list;
\* a text that is not JSON, or a document that is not an object, raises
em_carica_backup(blob) ==
    IF blob.kind # "object"
    THEN [ok |-> FALSE, spese_giornaliere |-> <<>>, spese_ricorrenti |-> <<>>,
          conti |-> <<>>]
    ELSE [ok |-> TRUE,
          spese_giornaliere |-> BlobGet(blob, "spese_giornaliere"),
          spese_ricorrenti |-> BlobGet(blob, "spese_ricorrenti"),
          conti |-> BlobGet(blob, "conti")]

\* ui_components.DataManager.carica_backup: data['...'] for each list, which
\* raises KeyError when the object lacks the key
ui_carica_backup(blob) ==
    IF blob.kind # "object"
       \/ ~ HasKeys(blob.obj, {"spese_giornaliere", "spese_ricorrenti", "conti"})
    THEN [ok |-> FALSE, spese_giornaliere |-> <<>>, spese_ricorrenti |-> <<>>,
          conti |-> <<>>]
    ELSE [ok |-> TRUE,
          spese_giornaliere |-> blob.obj.spese_giornaliere,
          spese_ricorrenti |-> blob.obj.spese_ricorrenti,
          conti |-> blob.obj.conti]

\* DataManager.esporta_dati_per_backup (expense_manager.py, ui_components.py):
\* what load_expense_data returns for the user, dumped as one object
esporta_dati_per_backup(d, username) ==
    LET l == load_expense_data(d, username) IN
    json_dumps([spese_giornaliere |-> l.spese_giornaliere,
                spese_ricorrenti |-> l.spese_ricorrenti,
                conti |-> l.conti])

\* ME.py "Scarica Backup": the text of the user's data file, as it is
me_export(files, username) ==
    LET f == get_user_data_file(username) IN
    IF f \notin DOMAIN files
    THEN [kind |-> "nofile", obj |-> EmptyDict]
    ELSE IF ~ files[f].complete
    THEN [kind |-> "notjson", obj |-> EmptyDict]
    ELSE json_dumps([spese_giornaliere |-> files[f].spese_giornaliere,
                     spese_ricorrenti |-> files[f].spese_ricorrenti,
                     conti |-> files[f].conti])

\* the button "Scarica Backup" (ME.py lines 1330-1340)
MeExport(s) ==
    /\ variant = "file"
    /\ session[s].authenticated
    /\ LET pro == MePrologue(s)
           blob == me_export(data_files, pro.session.username)
       IN  IF pro.expired
           THEN MeExpired(s, pro)
           ELSE /\ session' = [session EXCEPT ![s] = pro.session]
                /\ result' = [Res("export", blob.kind = "object", "") EXCEPT
                                 !.sid = s, !.key = pro.session.username,
                                 !.loaded = <<blob>>]
                /\ UNCHANGED <<variant, now, users, attempts_data, data_files, db, streak>>

DbExport(username) ==
    /\ variant = "db"
    /\ result' = [Res("export", TRUE, "") EXCEPT
                     !.key = username,
                     !.loaded = <<esporta_dati_per_backup(db, username)>>]
    /\ UNCHANGED <<variant, now, users, attempts_data, session, data_files, db, streak>>

\* expense_manager.DataManager.carica_backup called with an uploaded text
EmImport(blob) ==
    /\ variant = "db"
    /\ LET r == em_carica_backup(blob) IN
          result' = [Res("import", r.ok, "") EXCEPT
                        !.loaded = <<r.spese_giornaliere, r.spese_ricorrenti, r.conti>>]
    /\ UNCHANGED <<variant, now, users, attempts_data, session, data_files, db, streak>>

\* ui_components.DataManager.carica_backup called with an uploaded text
UiImport(blob) ==
    /\ variant = "db"
    /\ LET r == ui_carica_backup(blob) IN
          result' = [Res("ui_import", r.ok, IF r.ok THEN "" ELSE "Formato backup non valido")
                        EXCEPT !.loaded = <<r.spese_giornaliere, r.spese_ricorrenti,
                                            r.conti>>]
    /\ UNCHANGED <<variant, now, users, attempts_data, session, data_files, db, streak>>

\* uploaded texts: the ones above, an object with none of the three lists, a
\* whole backup, and one whose recurring expense lacks 'frequenza'
BackupBlobs ==
    StoreBlobs \cup
    { EmptyBackup,
      json_dumps([spese_giornaliere |-> <<DailyRec>>,
                  spese_ricorrenti |-> <<RecurringRec>>,
                  conti |-> <<ContoRec>>]),
      json_dumps([spese_giornaliere |-> <<>>,
                  spese_ricorrenti |-> <<RecurringNoFrequenza>>,
                  conti |-> <<>>]) }

BackupSessions == {1}

MaxBackupList == 1

MaxBackupTicks == 1

\* time passes between the calls of the database deployment
TickBackup ==
    /\ variant = "db"
    /\ now < MaxBackupTicks
    /\ now' = now + 1
    /\ result' = Res("tick", TRUE, "")
    /\ UNCHANGED <<variant, users, attempts_data, session, data_files, db, streak>>

NextBackup ==
    \/ /\ users = EmptyDict
       /\ Register(SessionName, GoodPassword, FixedSalt)
    \/ \E s \in BackupSessions : MeLogin(s, SessionName, GoodPassword)
    \/ \E s \in BackupSessions :
          /\ Len(MeLoaded(s).conti) < MaxBackupList
          /\ MeAddConto(s, ContoC, <<>>, "Personale")
    \/ \E s \in BackupSessions, c \in ExpenseContos :
          /\ Len(MeLoaded(s).spese_giornaliere) < MaxBackupList
          /\ MeAddDaily(s, Day1, "Altro", <<"x">>, 1004, c)
    \/ \E s \in BackupSessions : MeDeleteDaily(s, 0)
    \/ \E s \in BackupSessions, blob \in BackupBlobs : MeRestore(s, blob)
    \/ \E s \in BackupSessions : MeExport(s)
    \/ /\ users = EmptyDict
       /\ UiRegister(SessionName, GoodPassword, FixedSalt)
    \/ TickBackup
    \/ \E in \in SaveInputs : DbSave(SessionName, in[1], in[2], in[3])
    \/ DbExport(SessionName)
    \/ \E blob \in BackupBlobs : EmImport(blob)
    \/ \E blob \in BackupBlobs : UiImport(blob)

SpecBackup == Init /\ [][NextBackup]_vars

\* a backup of the expected structure: an object whose lists, where present,
\* hold records with the fields of their kind
WellFormedBackup(blob) ==
    /\ blob.kind = "object"
    /\ \A i \in DOMAIN BlobGet(blob, "spese_giornaliere") :
          InsertableG(BlobGet(blob, "spese_giornaliere")[i])
    /\ \A i \in DOMAIN BlobGet(blob, "spese_ricorrenti") :
          InsertableR(BlobGet(blob, "spese_ricorrenti")[i])
    /\ \A i \in DOMAIN BlobGet(blob, "conti") : InsertableC(BlobGet(blob, "conti")[i])

\* C11: restoring a backup that is not of the expected structure fails and
\* leaves the lists of the session and the stored data as they were; the
\* import functions of the database deployment fail on it as well.
C11_MalformedBackupRejected ==
    [][\A blob \in BackupBlobs :
          ~ WellFormedBackup(blob) =>
             /\ \A s \in BackupSessions :
                   (MeRestore(s, blob) /\ result'.op = "restore") =>
                       /\ ~ result'.ok
                       /\ UNCHANGED data_files
                       /\ session'[s].spese_giornaliere = MeLoaded(s).spese_giornaliere
                       /\ session'[s].spese_ricorrenti = MeLoaded(s).spese_ricorrenti
                       /\ session'[s].conti = MeLoaded(s).conti
             /\ EmImport(blob) => ~ result'.ok
             /\ UiImport(blob) => ~ result'.ok]_vars

\* two lists hold the same records the same number of times, in any order
SameRecords(a, b) ==
    /\ Len(a) = Len(b)
    /\ \A i \in DOMAIN a :
          Cardinality({j \in DOMAIN a : a[j] = a[i]})
              = Cardinality({j \in DOMAIN b : b[j] = a[i]})

\* C12: importing what export produces gives back the user's daily expenses,
\* recurring expenses and accounts, field for field, in any order: for the
\* lists a save of the database deployment was handed, and for the lists a
\* session of the file deployment holds after a change.
C12_ExportImportRoundTrip ==
    [][/\ \A in \in SaveInputs :
             (DbSave(SessionName, in[1], in[2], in[3]) /\ result'.ok) =>
                 LET imp == em_carica_backup(esporta_dati_per_backup(db', SessionName))
                 IN  /\ imp.ok
                     /\ SameRecords(imp.spese_giornaliere, in[1])
                     /\ SameRecords(imp.spese_ricorrenti, in[2])
                     /\ SameRecords(imp.conti, in[3])
       /\ \A s \in BackupSessions :
             (/\ result'.op \in {"add_account", "add_daily", "delete_daily", "restore"}
              /\ result'.ok
              /\ result'.sid = s) =>
                 LET imp == carica_backup(session'[s], data_files',
                                          me_export(data_files', session'[s].username))
                 IN  /\ imp.ok
                     /\ SameRecords(imp.session.spese_giornaliere,
                                    session'[s].spese_giornaliere)
                     /\ SameRecords(imp.session.spese_ricorrenti,
                                    session'[s].spese_ricorrenti)
                     /\ SameRecords(imp.session.conti, session'[s].conti)]_vars

\* C13: importing a backup object that lacks one or more of the three lists
\* succeeds, with an empty list for each one it lacks, in every import path.
C13_MissingCollectionsDefaultEmpty ==
    [][\A blob \in BackupBlobs :
          (/\ blob.kind = "object"
           /\ ~ HasKeys(blob.obj, {"spese_giornaliere", "spese_ricorrenti", "conti"})) =>
             LET expected == <<BlobGet(blob, "spese_giornaliere"),
                               BlobGet(blob, "spese_ricorrenti"),
                               BlobGet(blob, "conti")>>
             IN  /\ EmImport(blob) => (result'.ok /\ result'.loaded = expected)
                 /\ UiImport(blob) => (result'.ok /\ result'.loaded = expected)
                 /\ \A s \in BackupSessions :
                       (MeRestore(s, blob) /\ result'.op = "restore") =>
                           /\ result'.ok
                           /\ session'[s].spese_giornaliere = expected[1]
                           /\ session'[s].spese_ricorrenti = expected[2]
                           /\ session'[s].conti = expected[3]]_vars

-----------------------------------------------------------------------------
(* Persistence of changes *)

\* C14: when an operation that changes a user's lists returns, the user's
\* data file holds the lists of the session (no file at all only while the
\* three lists are empty).
C14_MutationsPersisted ==
    [][result'.op \in {"add_account", "delete_account", "add_daily", "add_recurring",
                       "delete_daily", "delete_recurring", "restore"} =>
          LET f == get_user_data_file(result'.key)
              mem == session'[result'.sid]
          IN  IF f \in DOMAIN data_files'
              THEN /\ data_files'[f].complete
                   /\ data_files'[f].spese_giornaliere = mem.spese_giornaliere
                   /\ data_files'[f].spese_ricorrenti = mem.spese_ricorrenti
                   /\ data_files'[f].conti = mem.conti
              ELSE /\ mem.spese_giornaliere = <<>>
                   /\ mem.spese_ricorrenti = <<>>
                   /\ mem.conti = <<>>]_vars

-----------------------------------------------------------------------------
(* Credentials: registration, login and password change in both deployments *)

\* SupabaseDatabaseManager.update_user_password: UPDATE ... WHERE username = %s,
\* true when a row was updated
update_user_password(usrs, username, new_password_hash) ==
    IF username \in DOMAIN usrs
    THEN [ok |-> TRUE,
          users |-> Put(usrs, username,
                        [usrs[username] EXCEPT !.password_hash = new_password_hash,
                                               !.salt = new_password_hash[2]])]
    ELSE [ok |-> FALSE, users |-> usrs]

\* ui_components.UserAuthenticator.change_password: the username is looked up
\* as given
ui_change_password(usrs, username, current_password, new_password, salt) ==
    LET user == get_user(usrs, username) IN
    IF user = <<>>
    THEN [ok |-> FALSE, msg |-> "Utente non trovato", users |-> usrs]
    ELSE IF ~ verify_password(current_password, user[1].password_hash)
    THEN [ok |-> FALSE, msg |-> "Password corrente non corretta", users |-> usrs]
    ELSE IF ~ is_strong_password(new_password)
    THEN [ok |-> FALSE, msg |-> "password debole", users |-> usrs]
    ELSE LET upd == update_user_password(usrs, username,
                                         hash_password(new_password, salt))
         IN  IF upd.ok
             THEN [ok |-> TRUE, msg |-> "Password cambiata con successo",
                   users |-> upd.users]
             ELSE [ok |-> FALSE, msg |-> "Errore nell'aggiornamento della password",
                   users |-> usrs]

UiChangePassword(username, current_password, new_password, salt) ==
    /\ variant = "db"
    /\ LET r == ui_change_password(users, username, current_password, new_password, salt)
       IN  /\ users' = r.users
           /\ result' = [Res("change_password", r.ok, r.msg) EXCEPT
                            !.key = username, !.password = new_password]
    /\ UNCHANGED <<variant, now, attempts_data, session, data_files, db, streak>>

\* a second password the strength policies accept
GoodPassword2 == <<"A","b","c","d","e","f","2","!">>

\* the current passwords and the new passwords offered to a change of password
CredPasswords == {GoodPassword, BadPassword}
NewPasswords == {GoodPassword2, BadPassword}

\* two usernames that differ by letter case only
CredNames == {<<"a","b","c">>, <<"A","b","c">>}

CredSessions == {1}

MaxCredList == 1

\* failed logins counted in a browser session of the database deployment
MaxCredFailures == 2

\* failed logins made for the first of the names only
NextCredentials ==
    \/ \E u \in CredNames, p \in {GoodPassword, BadPassword} : Register(u, p, FixedSalt)
    \/ \E s \in CredSessions : MeLogin(s, SessionName, GoodPassword)
    \/ \E s \in CredSessions : MeLogout(s)
    \/ AuthCall(SessionName, BadPassword)
    \/ \E s \in CredSessions, old \in CredPasswords, new \in NewPasswords :
          MeChangePassword(s, old, new, FixedSalt)
    \/ \E u \in CredNames, p \in {GoodPassword, BadPassword} : UiRegister(u, p, FixedSalt)
    \/ \E s \in CredSessions, u \in CredNames : UiAuthCall(s, u, GoodPassword)
    \/ \E s \in CredSessions :
          /\ \A k \in DOMAIN session[s].login_attempts :
                session[s].login_attempts[k].count < MaxCredFailures
          /\ UiAuthCall(s, SessionName, BadPassword)
    \/ \E u \in CredNames, old \in CredPasswords, new \in NewPasswords :
          UiChangePassword(u, old, new, FixedSalt)

SpecCredentials == Init /\ [][NextCredentials]_vars

\* the same calls, and the account and expense requests of the session
NextValidation ==
    \/ NextCredentials
    \/ \E s \in CredSessions :
          /\ Len(MeLoaded(s).conti) <= MaxCredList
          /\ MeAddConto(s, ContoC, <<>>, "Personale")
    \/ \E s \in CredSessions :
          /\ Len(MeLoaded(s).spese_giornaliere) < MaxCredList
          /\ MeAddDaily(s, Day1, "Altro", <<"x">>, 1000, ContoC)
    \/ \E s \in CredSessions : MeDeleteConto(s, 0)

SpecValidation == Init /\ [][NextValidation]_vars

\* the errors of validation: a weak password, a username or an account name
\* that exists, an account that is in use
ValidationErrors ==
    {"password debole", "Username gia esistente", "Esiste gia' un conto con questo nome",
     "Impossibile eliminare il conto"}

\* C15: an operation that ends in a validation error leaves the users, the
\* failed-attempt counters of every username, the stored data and the lists
\* of the session as they were before the call.
C15_ValidationErrorsLeaveState ==
    [][(/\ result'.op \in {"register", "change_password", "add_account", "delete_account"}
        /\ ~ result'.ok
        /\ result'.msg \in ValidationErrors) =>
          /\ UNCHANGED <<users, attempts_data, data_files, db>>
          /\ \A s \in SessionIds :
                /\ session'[s].login_attempts = session[s].login_attempts
                /\ session'[s].authenticated =>
                      /\ session'[s].spese_giornaliere = MeLoaded(s).spese_giornaliere
                      /\ session'[s].spese_ricorrenti = MeLoaded(s).spese_ricorrenti
                      /\ session'[s].conti = MeLoaded(s).conti]_vars


\* C16 (as stated): a registration whose normalised username is already stored
\* fails with the duplicate-username error and leaves the stored records as
\* they were.
C16_DuplicateAlwaysReported ==
    [][(result'.op = "register" /\ result'.key \in DOMAIN users) =>
          /\ ~ result'.ok
          /\ result'.msg = "Username gia esistente"
          /\ users' = users]_vars

\* C16 (amended): a registration whose normalised username is already stored
\* always fails and leaves the stored records as they were; it fails with the
\* duplicate-username error exactly when the password passes the strength
\* policy, and with the weak-password error otherwise.  When one of two names
\* differing by letter case is the only one registered, the other is refused
\* as a duplicate exactly when it logs in with the first one's password.
C16_DuplicateUsernameRejected ==
    /\ [][\A u \in CredNames, p \in CredPasswords :
            /\ (Register(u, p, FixedSalt) /\ sanitize_username(u) \in DOMAIN users) =>
                  /\ ~ result'.ok
                  /\ users' = users
                  /\ result'.msg = IF validate_password_strength(p)
                                   THEN "Username gia esistente" ELSE "password debole"
            /\ (UiRegister(u, p, FixedSalt) /\ lower(strip(u)) \in DOMAIN users) =>
                  /\ ~ result'.ok
                  /\ users' = users
                  /\ result'.msg = IF is_strong_password(p)
                                   THEN "Username gia esistente" ELSE "password debole"]_vars
    /\ [](\A u1 \in CredNames, u2 \in CredNames, p \in {GoodPassword, GoodPassword2} :
            /\ (/\ variant = "file"
                /\ DOMAIN users = {sanitize_username(u1)}
                /\ users[sanitize_username(u1)].password_hash
                      = hash_password_secure(p, users[sanitize_username(u1)].salt)) =>
                  ((register_user(users, u2, p, FixedSalt).msg = "Username gia esistente")
                     <=> authenticate_user(users, EmptyDict, u2, p, now).ok)
            /\ (/\ variant = "db"
                /\ DOMAIN users = {lower(strip(u1))}
                /\ verify_password(p, users[lower(strip(u1))].password_hash)) =>
                  ((ui_register_user(users, u2, p, <<>>, FixedSalt).msg
                       = "Username gia esistente")
                     <=> ui_authenticate_user(users, EmptyDict, u2, p, now).ok))

\* a registration was refused because the username is already stored
C16_Witness ==
    /\ result.op = "register"
    /\ ~ result.ok
    /\ result.msg = "Username gia esistente"
    /\ result.key \in DOMAIN users


\* C17 (as stated): a change of password succeeds only if the current password
\* passes the check of authenticate and the new password is strong; after a
\* success the new password authenticates and the old one does not; after a
\* failure a password that authenticated before the call still authenticates.
C17_OldPasswordSurvivesFailure ==
    [][\A s \in CredSessions, n \in CredNames, old \in CredPasswords, new \in NewPasswords :
          /\ MeChangePassword(s, old, new, FixedSalt) =>
                LET u == session[s].username
                    After(p) == authenticate_user(users', attempts_data', u, p, now).ok
                IN  /\ result'.ok =>
                          /\ authenticate_user(users, attempts_data, u, old, now).ok
                          /\ validate_password_strength(new)
                          /\ After(new)
                          /\ old # new => ~ After(old)
                    /\ ~ result'.ok =>
                          \A p \in CredPasswords \cup NewPasswords :
                             authenticate_user(users, attempts_data, u, p, now).ok => After(p)
          /\ UiChangePassword(n, old, new, FixedSalt) =>
                LET After(p) == ui_authenticate_user(users', EmptyDict, n, p, now).ok
                IN  /\ result'.ok =>
                          /\ ui_authenticate_user(users, EmptyDict, n, old, now).ok
                          /\ is_strong_password(new)
                          /\ After(new)
                          /\ old # new => ~ After(old)
                    /\ ~ result'.ok =>
                          \A p \in CredPasswords \cup NewPasswords :
                             ui_authenticate_user(users, EmptyDict, n, p, now).ok => After(p)]_vars

\* C17 (amended): the same, except that after a failed change the stored
\* credentials are unchanged, and a password that matched the stored
\* credential before the call authenticates afterwards whenever the account
\* is not locked: in the file deployment a wrong current password is counted
\* as a failed login, and the fifth one locks the account.
C17_ChangePassword ==
    [][\A s \in CredSessions, n \in CredNames, old \in CredPasswords, new \in NewPasswords :
          /\ MeChangePassword(s, old, new, FixedSalt) =>
                LET u == session[s].username
                    k == sanitize_username(u)
                    After(p) == authenticate_user(users', attempts_data', u, p, now).ok
                IN  /\ result'.ok =>
                          /\ authenticate_user(users, attempts_data, u, old, now).ok
                          /\ validate_password_strength(new)
                          /\ After(new)
                          /\ old # new => ~ After(old)
                    /\ ~ result'.ok =>
                          /\ users' = users
                          /\ \A p \in CredPasswords \cup NewPasswords :
                                (/\ k \in DOMAIN users
                                 /\ hash_password_secure(p, users[k].salt)
                                       = users[k].password_hash
                                 /\ ~ is_account_locked(attempts_data', u, now).locked)
                                   => After(p)
                          /\ (/\ ~ is_account_locked(attempts_data, u, now).locked
                              /\ ~ authenticate_user(users, attempts_data, u, old, now).ok) =>
                                /\ k \in DOMAIN attempts_data'
                                /\ attempts_data'[k].failed_attempts
                                      = (IF k \in DOMAIN attempts_data
                                         THEN attempts_data[k].failed_attempts ELSE 0) + 1
          /\ UiChangePassword(n, old, new, FixedSalt) =>
                LET After(p) == ui_authenticate_user(users', EmptyDict, n, p, now).ok
                IN  /\ result'.ok =>
                          /\ ui_authenticate_user(users, EmptyDict, n, old, now).ok
                          /\ is_strong_password(new)
                          /\ After(new)
                          /\ old # new => ~ After(old)
                    /\ ~ result'.ok =>
                          /\ UNCHANGED <<users, session>>
                          /\ \A p \in CredPasswords \cup NewPasswords :
                                ui_authenticate_user(users, EmptyDict, n, p, now).ok
                                   => After(p)]_vars

\* a password was changed
C17_Witness ==
    /\ result.op = "change_password"
    /\ result.ok
    /\ result.password = GoodPassword2


-----------------------------------------------------------------------------
(* Deleting expenses by index *)

\* ME.elimina_spesa_giornaliera(indice), called in a request of session s
MeEliminaGiornaliera(s, indice) ==
    IF 0 <= indice /\ indice < Len(MeLoaded(s).spese_giornaliere)
    THEN MeDeleteDaily(s, indice)
    ELSE /\ variant = "file"
         /\ session[s].authenticated
         /\ ~ MePrologue(s).expired
         /\ session' = [session EXCEPT ![s] = MePrologue(s).session]
         /\ result' = [Res("delete_daily", TRUE, "") EXCEPT
                          !.sid = s, !.key = session[s].username, !.indice = indice]
         /\ UNCHANGED <<variant, now, users, attempts_data, data_files, db, streak>>

\* ME.elimina_spesa_ricorrente(indice), called in a request of session s
MeEliminaRicorrente(s, indice) ==
    IF 0 <= indice /\ indice < Len(MeLoaded(s).spese_ricorrenti)
    THEN MeDeleteRecurring(s, indice)
    ELSE /\ variant = "file"
         /\ session[s].authenticated
         /\ ~ MePrologue(s).expired
         /\ session' = [session EXCEPT ![s] = MePrologue(s).session]
         /\ result' = [Res("delete_recurring", TRUE, "") EXCEPT
                          !.sid = s, !.key = session[s].username, !.indice = indice]
         /\ UNCHANGED <<variant, now, users, attempts_data, data_files, db, streak>>

DeleteSessions == {1}
MaxDeleteList == 2

\* the indices handed to the deletes: negative, valid, and past the end
DeleteIndices == (0 - 1)..MaxDeleteList

NextDelete ==
    \/ /\ users = EmptyDict
       /\ Register(SessionName, GoodPassword, FixedSalt)
    \/ \E s \in DeleteSessions : MeLogin(s, SessionName, GoodPassword)
    \/ \E s \in DeleteSessions :
          /\ Len(MeLoaded(s).conti) < 1
          /\ MeAddConto(s, ContoC, <<>>, "Personale")
    \/ \E s \in DeleteSessions, d \in {<<"x">>, <<"y">>} :
          /\ Len(MeLoaded(s).spese_giornaliere) < MaxDeleteList
          /\ MeAddDaily(s, Day1, "Altro", d, 1000, Nessuno)
    \/ \E s \in DeleteSessions, n \in {<<"r">>, <<"q">>} :
          /\ Len(MeLoaded(s).spese_ricorrenti) < MaxDeleteList
          /\ MeAddRecurring(s, n, "Altro", 1000, "Mensile", Nessuno)
    \/ \E s \in DeleteSessions, i \in DeleteIndices : MeEliminaGiornaliera(s, i)
    \/ \E s \in DeleteSessions, i \in DeleteIndices : MeEliminaRicorrente(s, i)

SpecDelete == InitFile /\ [][NextDelete]_vars

-----------------------------------------------------------------------------
(* Monthly totals *)

\* 'Non specificato'
NonSpecificato == <<"N","o","n"," ","s","p","e","c","i","f","i","c","a","t","o">>

\* a total that counts four weeks in a month
RECURSIVE calcola_spese_ricorrenti_mensili_four(_)
calcola_spese_ricorrenti_mensili_four(spese_ricorrenti) ==
    IF spese_ricorrenti = <<>> THEN 0
    ELSE LET spesa == Head(spese_ricorrenti) IN
         (IF spesa.frequenza = "Mensile" THEN spesa.importo * 1200
          ELSE IF spesa.frequenza = "Settimanale" THEN spesa.importo * 4800
          ELSE IF spesa.frequenza = "Annuale" THEN spesa.importo * 100
          ELSE 0)
         + calcola_spese_ricorrenti_mensili_four(Tail(spese_ricorrenti))

\* The monthly amount of recurring expenses is kept in 1/1200 of the unit of
\* importo, in which importo * 4.33 and importo / 12 are the whole numbers
\* importo * 5196 and importo * 100 (and importo itself is importo * 1200).
RECURSIVE calcola_spese_ricorrenti_mensili(_)
calcola_spese_ricorrenti_mensili(spese_ricorrenti) ==
    IF spese_ricorrenti = <<>> THEN 0
    ELSE LET spesa == Head(spese_ricorrenti) IN
         (IF spesa.frequenza = "Mensile" THEN spesa.importo * 1200
          ELSE IF spesa.frequenza = "Settimanale" THEN spesa.importo * 5196
          ELSE IF spesa.frequenza = "Annuale" THEN spesa.importo * 100
          ELSE 0)
         + calcola_spese_ricorrenti_mensili(Tail(spese_ricorrenti))

\* ME.calcola_spese_ricorrenti_mensili(mese, anno) reads neither argument
me_calcola_spese_ricorrenti_mensili(spese_ricorrenti, mese, anno) ==
    calcola_spese_ricorrenti_mensili(spese_ricorrenti)

\* a filter that compares the month only
filtra_spese_per_mese_month_only(spese_giornaliere, mese, anno) ==
    SelectSeq(spese_giornaliere,
              LAMBDA spesa : /\ "data" \in DOMAIN spesa
                             /\ spesa.data[2] = mese)

\* expense_manager: a record without a date is skipped
filtra_spese_per_mese(spese_giornaliere, mese, anno) ==
    SelectSeq(spese_giornaliere,
              LAMBDA spesa : /\ "data" \in DOMAIN spesa
                             /\ spesa.data[2] = mese
                             /\ spesa.data[1] = anno)

\* The dictionary the two loops build: one entry for each key met, the daily
\* amounts added in the unit of importo, the recurring ones in 1/1200 of it.
\* The key of an expense is spesa.get('conto', 'Non specificato'), replaced by
\* 'Non specificato' when it is one of the values of unassigned.
SpesePerConto(spese_mese, spese_ricorrenti, unassigned) ==
    LET Key(spesa) == IF "conto" \notin DOMAIN spesa THEN NonSpecificato
                      ELSE IF spesa.conto \in unassigned THEN NonSpecificato
                      ELSE spesa.conto
        Daily(k) == SelectSeq(spese_mese, LAMBDA spesa : Key(spesa) = k)
        Recurring(k) == SelectSeq(spese_ricorrenti, LAMBDA spesa : Key(spesa) = k)
        RECURSIVE Giornaliere(_)
        Giornaliere(l) == IF l = <<>> THEN 0 ELSE Head(l).importo + Giornaliere(Tail(l))
        RECURSIVE Ricorrenti(_)
        Ricorrenti(l) ==
            IF l = <<>> THEN 0
            ELSE (IF Head(l).frequenza = "Settimanale" THEN Head(l).importo * 5196
                  ELSE IF Head(l).frequenza = "Annuale" THEN Head(l).importo * 100
                  ELSE Head(l).importo * 1200)
                 + Ricorrenti(Tail(l))
    IN  [k \in {Key(spese_mese[i]) : i \in DOMAIN spese_mese}
                \cup {Key(spese_ricorrenti[i]) : i \in DOMAIN spese_ricorrenti} |->
            [giornaliere |-> Giornaliere(Daily(k)), ricorrenti |-> Ricorrenti(Recurring(k))]]

\* expense_manager.ExpenseCalculator.calcola_spese_per_conto: None and
\* "Nessuno" become 'Non specificato'
calcola_spese_per_conto(spese_giornaliere, spese_ricorrenti, mese, anno) ==
    SpesePerConto(filtra_spese_per_mese(spese_giornaliere, mese, anno), spese_ricorrenti,
                  {None, Nessuno})

\* ME.calcola_spese_per_conto: the key is spesa.get('conto', 'Non specificato')
me_calcola_spese_per_conto(spese_giornaliere, spese_ricorrenti, mese, anno) ==
    SpesePerConto(filtra_spese_per_mese(spese_giornaliere, mese, anno), spese_ricorrenti, {})

\* The dashboard of ME.py for the selected month: the recurring total, and the
\* table of the accounts when the user has accounts.  ME.filtra_spese_per_mese
\* raises on a daily expense without a date, which ends the request.
MeDashboard(s, mese, anno) ==
    /\ variant = "file"
    /\ session[s].authenticated
    /\ LET pro == MePrologue(s)
           cur == pro.session
       IN  IF pro.expired
           THEN MeExpired(s, pro)
           ELSE /\ session' = [session EXCEPT ![s] = cur]
                /\ result' =
                     IF \E i \in DOMAIN cur.spese_giornaliere :
                           "data" \notin DOMAIN cur.spese_giornaliere[i]
                     THEN [Res("dashboard", FALSE, "KeyError") EXCEPT
                              !.sid = s, !.key = cur.username]
                     ELSE [Res("dashboard", TRUE, "") EXCEPT
                              !.sid = s, !.key = cur.username,
                              !.loaded =
                                 <<[mese |-> mese, anno |-> anno,
                                    totale_ricorrenti_mese |->
                                       me_calcola_spese_ricorrenti_mensili(
                                          cur.spese_ricorrenti, mese, anno),
                                    spese_per_conto |->
                                       IF cur.conti # <<>>
                                       THEN me_calcola_spese_per_conto(
                                               cur.spese_giornaliere, cur.spese_ricorrenti,
                                               mese, anno)
                                       ELSE EmptyDict]>>]
                /\ UNCHANGED <<variant, now, users, attempts_data, data_files, db, streak>>

TotalsSessions == {1}
MaxTotalsList == 2

\* a second day, in the month after Day1's
Day2 == <<2024, 2, 3>>

\* a data file written before expenses had the field 'conto'
LegacyBackup ==
    json_dumps([spese_giornaliere |->
                   <<[data |-> Day1, categoria |-> "Altro", descrizione |-> <<"x">>,
                      importo |-> 20000]>>,
                spese_ricorrenti |-> <<>>,
                conti |-> <<ContoRec>>])

\* the frequencies of the form, each with the account chosen for it
TotalsRecurring ==
    {<<"Mensile", 50000, Nessuno>>, <<"Settimanale", 10000, ContoC>>,
     <<"Annuale", 120000, Nessuno>>}

NextTotals ==
    \/ /\ users = EmptyDict
       /\ Register(SessionName, GoodPassword, FixedSalt)
    \/ \E s \in TotalsSessions : MeLogin(s, SessionName, GoodPassword)
    \/ \E s \in TotalsSessions :
          /\ Len(MeLoaded(s).conti) < 1
          /\ MeAddConto(s, ContoC, <<>>, "Personale")
    \/ \E s \in TotalsSessions, d \in {<<Day1, ContoC>>, <<Day2, Nessuno>>} :
          /\ Len(MeLoaded(s).spese_giornaliere) < MaxTotalsList
          /\ MeAddDaily(s, d[1], "Altro", <<"x">>, 20000, d[2])
    \/ \E s \in TotalsSessions, r \in TotalsRecurring :
          /\ Len(MeLoaded(s).spese_ricorrenti) < MaxTotalsList
          /\ MeAddRecurring(s, <<"r">>, "Altro", r[2], r[1], r[3])
    \/ \E s \in TotalsSessions :
          /\ MeLoaded(s).spese_giornaliere = <<>>
          /\ MeRestore(s, LegacyBackup)
    \/ \E s \in TotalsSessions, mese \in {Day1[2], Day2[2]} : MeDashboard(s, mese, Day1[1])

SpecTotals == InitFile /\ [][NextTotals]_vars

\* C19: the table of a month has one entry for each account key with a
\* contributing record (a daily expense of that month, or any recurring
\* expense) and no other; expenses without an account reference (no field,
\* none, or the option "Nessuno") share one entry; an entry's daily value is
\* the sum of the month's daily amounts of the key and its recurring value the
\* sum of the monthly amounts of all recurring expenses of the key.
C19_TotalsByAccount ==
    [][\A s \in TotalsSessions :
          (result'.op = "dashboard" /\ result'.ok /\ result'.sid = s
             /\ session'[s].conti # <<>>) =>
             LET row == result'.loaded[1]
                 g == SelectSeq(session'[s].spese_giornaliere,
                                LAMBDA spesa : /\ spesa.data[2] = row.mese
                                               /\ spesa.data[1] = row.anno)
                 r == session'[s].spese_ricorrenti
                 Absent(spesa) == \/ "conto" \notin DOMAIN spesa
                                  \/ spesa.conto = None
                                  \/ spesa.conto = Nessuno
                 Monthly(spesa) ==
                    CASE spesa.frequenza = "Mensile" -> spesa.importo * 1200
                      [] spesa.frequenza = "Settimanale" -> spesa.importo * 433 * 12
                      [] spesa.frequenza = "Annuale" -> spesa.importo * 100
                 RECURSIVE SumG(_, _, _)
                 SumG(l, k, u) ==
                    IF l = <<>> THEN 0
                    ELSE (IF (IF Absent(Head(l)) THEN u ELSE Head(l).conto) = k
                          THEN Head(l).importo ELSE 0) + SumG(Tail(l), k, u)
                 RECURSIVE SumR(_, _, _)
                 SumR(l, k, u) ==
                    IF l = <<>> THEN 0
                    ELSE (IF (IF Absent(Head(l)) THEN u ELSE Head(l).conto) = k
                          THEN Monthly(Head(l)) ELSE 0) + SumR(Tail(l), k, u)
                 Keys(u) == {IF Absent(g[i]) THEN u ELSE g[i].conto : i \in DOMAIN g}
                               \cup {IF Absent(r[i]) THEN u ELSE r[i].conto : i \in DOMAIN r}
                 Expected(u) ==
                    [k \in Keys(u) |-> [giornaliere |-> SumG(g, k, u),
                                        ricorrenti |-> SumR(r, k, u)]]
             IN  /\ \E u \in {NonSpecificato, None, Nessuno} :
                       row.spese_per_conto = Expected(u)
                 /\ calcola_spese_per_conto(session'[s].spese_giornaliere, r,
                                            row.mese, row.anno)
                       = Expected(NonSpecificato)]_vars

\* C20: the monthly amount of a recurring expense is its amount when monthly,
\* 4.33 times its amount when weekly and a twelfth of it when yearly (weekly
\* 10 gives 43.30, monthly 10 gives 10.00, yearly 120 gives 10.00); the
\* recurring total of the dashboard is the sum of these amounts over all the
\* recurring expenses of the user, and is the same for every month and year
\* selected.  Amounts are in thousandths, totals in 1/1200 of a thousandth.
C20_MonthlyEquivalent ==
    [][\A s \in TotalsSessions :
          (result'.op = "dashboard" /\ result'.ok /\ result'.sid = s) =>
             LET row == result'.loaded[1]
                 r == session'[s].spese_ricorrenti
                 Equivalent(spesa) ==
                    CASE spesa.frequenza = "Mensile" -> spesa.importo * 1200
                      [] spesa.frequenza = "Settimanale" ->
                            spesa.importo * 433 * (1200 \div 100)
                      [] spesa.frequenza = "Annuale" -> spesa.importo * (1200 \div 12)
                 RECURSIVE Total(_)
                 Total(l) == IF l = <<>> THEN 0 ELSE Equivalent(Head(l)) + Total(Tail(l))
                 One(frequenza, importo) ==
                    calcola_spese_ricorrenti_mensili(
                       <<[nome |-> <<"r">>, categoria |-> "Altro", importo |-> importo,
                          frequenza |-> frequenza, conto |-> None]>>)
             IN  /\ row.totale_ricorrenti_mese = Total(r)
                 /\ calcola_spese_ricorrenti_mensili(r) = Total(r)
                 /\ \A mese \in 1..12, anno \in {Day1[1], Day1[1] + 1} :
                       me_calcola_spese_ricorrenti_mensili(r, mese, anno)
                          = row.totale_ricorrenti_mese
                 /\ One("Settimanale", 10000) = 43300 * 1200
                 /\ One("Mensile", 10000) = 10000 * 1200
                 /\ One("Annuale", 120000) = 10000 * 1200]_vars

\* the dashboard showed the total of a weekly 10 and a yearly 120: 53.30
C20_Witness ==
    /\ result.op = "dashboard"
    /\ result.ok
    /\ result.sid \in TotalsSessions
    /\ Len(session[result.sid].spese_ricorrenti) = 2
    /\ session[result.sid].spese_ricorrenti[1].frequenza = "Settimanale"
    /\ session[result.sid].spese_ricorrenti[2].frequenza = "Annuale"
    /\ result.loaded[1].totale_ricorrenti_mese = 53300 * 1200


-----------------------------------------------------------------------------
(* The daily expenses of a month *)

FilterSessions == {1}
MaxFilterList == 3

\* a day of the month of Day1, a year later
Day3 == <<Day1[1] + 1, Day1[2], 20>>

NextFilter ==
    \/ /\ users = EmptyDict
       /\ Register(SessionName, GoodPassword, FixedSalt)
    \/ \E s \in FilterSessions : MeLogin(s, SessionName, GoodPassword)
    \/ \E s \in FilterSessions, data \in {Day1, Day2, Day3}, d \in {<<"x">>, <<"y">>} :
          /\ Len(MeLoaded(s).spese_giornaliere) < MaxFilterList
          /\ MeAddDaily(s, data, "Altro", d, 20000, Nessuno)
    \/ \E s \in FilterSessions, mese \in {Day1[2], Day2[2]}, anno \in {Day1[1], Day3[1]} :
          MeDashboard(s, mese, anno)

SpecFilter == InitFile /\ [][NextFilter]_vars

\* C21: the filter by month returns the daily expenses dated in the month and
\* year asked for, all of them and no other, in the order they have in the
\* list; filtering its result again for the same month returns that result.
C21_FilterByMonth ==
    [][\A s \in FilterSessions :
          (result'.op = "dashboard" /\ result'.ok /\ result'.sid = s) =>
             LET g == session'[s].spese_giornaliere
                 mese == result'.loaded[1].mese
                 anno == result'.loaded[1].anno
                 out == filtra_spese_per_mese(g, mese, anno)
                 Matches(spesa) == spesa.data[1] = anno /\ spesa.data[2] = mese
                 RECURSIVE Kept(_)
                 Kept(l) == IF l = <<>> THEN <<>>
                            ELSE (IF Matches(Head(l)) THEN <<Head(l)>> ELSE <<>>)
                                 \o Kept(Tail(l))
             IN  /\ out = Kept(g)
                 /\ \A i \in DOMAIN out : Matches(out[i])
                 /\ Len(out) = Cardinality({i \in DOMAIN g : Matches(g[i])})
                 /\ filtra_spese_per_mese(out, mese, anno) = out]_vars

\* the dashboard of the month of Day1 was shown for a list holding two
\* different expenses of that month around one of the same month a year later
C21_Witness ==
    /\ result.op = "dashboard"
    /\ result.ok
    /\ result.sid \in FilterSessions
    /\ result.loaded[1].mese = Day1[2]
    /\ result.loaded[1].anno = Day1[1]
    /\ Len(session[result.sid].spese_giornaliere) = 3
    /\ session[result.sid].spese_giornaliere[1].data = Day1
    /\ session[result.sid].spese_giornaliere[1].descrizione = <<"y">>
    /\ session[result.sid].spese_giornaliere[2].data = Day3
    /\ session[result.sid].spese_giornaliere[3].data = Day1
    /\ session[result.sid].spese_giornaliere[3].descrizione = <<"x">>


-----------------------------------------------------------------------------
(* Strength of passwords *)

\* Passwords of eight characters with four, three and two of the classes, and
\* one of seven characters with all four.
StrengthPasswords ==
    {GoodPassword, GoodPassword2,
     <<"A","b","c","d","e","f","g","1">>,
     <<"a","b","c","d","e","f","1","!">>,
     <<"A","B","C","D","E","F","1","!">>,
     <<"A","b","c","d","e","f","g","!">>,
     <<"a","b","c","d","e","f","g","1">>,
     <<"A","b","c","d","e","1","!">>}

StrengthSessions == {1}

\* the password stored for the user, as the user who chose it knows it
StoredPassword == users[SessionName].password_hash[1]

NextStrength ==
    \/ \E u \in CredNames, p \in StrengthPasswords : Register(u, p, FixedSalt)
    \/ \E s \in StrengthSessions :
          /\ SessionName \in DOMAIN users
          /\ MeLogin(s, SessionName, StoredPassword)
    \/ \E s \in StrengthSessions, new \in StrengthPasswords :
          /\ SessionName \in DOMAIN users
          /\ MeChangePassword(s, StoredPassword, new, FixedSalt)
    \/ \E u \in CredNames, p \in StrengthPasswords : UiRegister(u, p, FixedSalt)
    \/ \E new \in StrengthPasswords :
          /\ SessionName \in DOMAIN users
          /\ UiChangePassword(SessionName, StoredPassword, new, FixedSalt)

SpecStrength == Init /\ [][NextStrength]_vars

-----------------------------------------------------------------------------
(* Failed logins made from two browser sessions *)

NextShared ==
    \/ /\ users = EmptyDict
       /\ Register(SessionName, GoodPassword, FixedSalt)
    \/ \E s \in SessionIds : MeLogin(s, SessionName, BadPassword)
    \/ LockCheck(SessionName)
    \/ /\ users = EmptyDict
       /\ UiRegister(SessionName, GoodPassword, FixedSalt)
    \/ \E s \in SessionIds : UiAuthCall(s, SessionName, BadPassword)
    \/ \E s \in SessionIds : UiLockCheck(s, SessionName)

SpecShared == Init /\ [][NextShared]_vars

\* C23: the failed logins of a username are counted for the username and not
\* for the browser session: a failed login made in one session adds one to
\* the count every session sees, and a username locked in one session is
\* locked in every session.
C23_CounterPerUsername ==
    /\ [](\A s1 \in SessionIds, s2 \in SessionIds :
             IsLocked(s1, SessionName) => IsLocked(s2, SessionName))
    /\ [][(/\ result'.op \in {"login", "authenticate"}
           /\ ~ result'.ok
           /\ result'.msg \in {"Credenziali non valide", "Username o password non corretti"}) =>
             \A s \in SessionIds :
                CounterOf(attempts_data', session', s, KeyOf(SessionName))
                   = CounterOf(attempts_data, session, s, KeyOf(SessionName)) + 1]_vars


\* C24: a lock check that answers locked also answers the time left of the
\* lockout, the lockout duration less the time passed since the lock began,
\* between 0 and the duration; a login refused because the username is locked
\* reports that time (in seconds, or in whole minutes).
C24_RemainingLockoutReported ==
    [][LET k == result'.key
           left == IF variant = "file"
                   THEN LOCKOUT_DURATION - (now - attempts_data[k].last_attempt)
                   ELSE session[result'.sid].login_attempts[k].lockout_time - now
           locked == IF variant = "file"
                     THEN is_account_locked(attempts_data, k, now).locked
                     ELSE is_locked_out(session[result'.sid].login_attempts, k, now)[1]
       IN  /\ (result'.op = "lock_check" /\ result'.locked) =>
                 /\ locked
                 /\ result'.remaining \in {left, left \div 60}
                 /\ 0 <= left /\ left <= LockSeconds
           /\ (result'.op \in {"login", "authenticate"} /\ result'.locked /\ locked) =>
                 result'.remaining \in {left, left \div 60}]_vars


-----------------------------------------------------------------------------
(* Time left of a session *)

\* auth_security.SessionManager.get_remaining_session_time: int() drops the
\* fraction of a minute, towards zero
get_remaining_session_time(sess, t) ==
    IF sess.last_activity = NoTime
    THEN 60
    ELSE LET remaining == SESSION_TIMEOUT - (t - sess.last_activity)
             minutes == IF remaining >= 0 THEN remaining \div 60
                        ELSE 0 - ((0 - remaining) \div 60)
         IN  IF minutes > 0 THEN minutes ELSE 0

\* ui_components.SessionManager.get_remaining_session_time
ui_get_remaining_session_time(sess, t) ==
    IF sess.last_activity # NoTime
       /\ UI_SESSION_TIMEOUT * 60 - (t - sess.last_activity) > 0
    THEN (UI_SESSION_TIMEOUT * 60 - (t - sess.last_activity)) \div 60
    ELSE UI_SESSION_TIMEOUT

\* A request of ME.py by a logged-in session: the header shows the minutes
\* left, computed after the timeout check of the request.
MeHeader(s) ==
    /\ variant = "file"
    /\ session[s].authenticated
    /\ LET pro == MePrologue(s)
           remaining == SESSION_TIMEOUT - (now - pro.session.last_activity)
       IN  IF pro.expired
           THEN MeExpired(s, pro)
           ELSE /\ session' = [session EXCEPT ![s] = pro.session]
                /\ result' = [Res("remaining", TRUE, "") EXCEPT
                                 !.sid = s, !.key = pro.session.username,
                                 !.remaining = IF remaining >= 0 THEN remaining \div 60
                                               ELSE 0 - ((0 - remaining) \div 60)]
                /\ UNCHANGED <<variant, now, users, attempts_data, data_files, db, streak>>

\* a call of ui_components.SessionManager.get_remaining_session_time
UiSessionRemaining(s) ==
    /\ variant = "db"
    /\ result' = [Res("remaining", TRUE, "") EXCEPT
                     !.sid = s,
                     !.remaining = ui_get_remaining_session_time(session[s], now)]
    /\ UNCHANGED <<variant, now, users, attempts_data, session, data_files, db, streak>>

RemainingSessions == {1}

NextRemaining ==
    \/ TickSession
    \/ /\ users = EmptyDict
       /\ Register(SessionName, GoodPassword, FixedSalt)
    \/ \E s \in RemainingSessions : MeLogin(s, SessionName, GoodPassword)
    \/ \E s \in RemainingSessions : MeHeader(s)
    \/ \E s \in RemainingSessions : UiSessionCheck(s)
    \/ \E s \in RemainingSessions : UiSessionRemaining(s)

SpecRemaining == Init /\ [][NextRemaining]_vars

\* C25: the minutes left of a session are the session timeout less the time
\* passed since the last activity, in whole minutes rounded down and not below
\* 0: never negative, never more than the timeout, and 0 once the timeout has
\* passed.
C25_RemainingMinutes ==
    LET timeout == IF variant = "file" THEN SESSION_TIMEOUT ELSE UI_SESSION_TIMEOUT * 60
        Left(sess) == IF now - sess.last_activity >= timeout THEN 0
                      ELSE (timeout - (now - sess.last_activity)) \div 60
    IN  /\ result.op = "remaining" =>
              /\ session[result.sid].last_activity # NoTime =>
                    result.remaining = Left(session[result.sid])
              /\ 0 <= result.remaining
              /\ result.remaining * 60 <= timeout
        /\ variant = "file" =>
              \A s \in RemainingSessions :
                 /\ session[s].last_activity # NoTime =>
                       get_remaining_session_time(session[s], now) = Left(session[s])
                 /\ 0 <= get_remaining_session_time(session[s], now)
                 /\ get_remaining_session_time(session[s], now) * 60 <= timeout


\* C26: once a lockout has expired the failed logins of the username are
\* counted again from zero: a failed login made after the expiry leaves the
\* username open, with a count of one.
C26_CountRestartsAfterExpiry ==
    [][(/\ result'.op \in {"login", "authenticate"}
        /\ ~ result'.ok
        /\ result'.msg \in {"Credenziali non valide", "Username o password non corretti"}) =>
          LET k == result'.key
              s == result'.sid
              expired ==
                 IF variant = "file"
                 THEN /\ k \in DOMAIN attempts_data
                      /\ attempts_data[k].failed_attempts >= MAX_LOGIN_ATTEMPTS
                      /\ ~ is_account_locked(attempts_data, k, now).locked
                 ELSE /\ k \in DOMAIN session[s].login_attempts
                      /\ session[s].login_attempts[k].count >= UI_MAX_LOGIN_ATTEMPTS
                      /\ ~ is_locked_out(session[s].login_attempts, k, now)[1]
          IN  expired =>
                 IF variant = "file"
                 THEN /\ ~ is_account_locked(attempts_data', k, now).locked
                      /\ attempts_data'[k].failed_attempts = 1
                 ELSE /\ ~ is_locked_out(session'[s].login_attempts, k, now)[1]
                      /\ session'[s].login_attempts[k].count = 1]_vars


-----------------------------------------------------------------------------
(* A session that is not authenticated *)

\* the "Vai al Login" button (ME.py lines 881-890); it is offered on the page
\* that follows a successful change of password
MeGoToLogin(s) ==
    /\ variant = "file"
    /\ session[s].authenticated
    /\ result.op = "change_password" /\ result.ok /\ result.sid = s
    /\ LET pro == MePrologue(s) IN
          IF pro.expired
          THEN MeExpired(s, pro)
          ELSE /\ session' = [session EXCEPT ![s] = ClearedSession(pro.session)]
               /\ result' = [Res("go_to_login", TRUE, "") EXCEPT !.sid = s]
               /\ UNCHANGED <<variant, now, users, attempts_data, data_files, db, streak>>

\* ui_components.StateManager.clear_user_session: the six keys are deleted; a
\* key that is absent reads as it does in a session that never logged in
clear_user_session(sess) ==
    [sess EXCEPT !.authenticated = NewSession.authenticated,
                 !.username = NewSession.username,
                 !.display_username = NewSession.display_username,
                 !.spese_giornaliere = NewSession.spese_giornaliere,
                 !.spese_ricorrenti = NewSession.spese_ricorrenti,
                 !.conti = NewSession.conti]

UiClearUserSession(s) ==
    /\ variant = "db"
    /\ session' = [session EXCEPT ![s] = clear_user_session(session[s])]
    /\ result' = [Res("clear_session", TRUE, "") EXCEPT !.sid = s]
    /\ UNCHANGED <<variant, now, users, attempts_data, data_files, db, streak>>

OtherName == <<"a","b","1">>
ClearedNames == {SessionName, OtherName}
ClearedSessions == {1}
MaxClearedList == 1

MaxClearedTicks == 1

\* a pause longer than the session timeout
TickCleared ==
    /\ now < MaxClearedTicks * (SessionSeconds + 1)
    /\ now' = now + SessionSeconds + 1
    /\ result' = Res("tick", TRUE, "")
    /\ UNCHANGED <<variant, users, attempts_data, session, data_files, db, streak>>

NextCleared ==
    \/ TickCleared
    \/ \E u \in ClearedNames : Register(u, GoodPassword, FixedSalt)
    \/ \E s \in ClearedSessions, u \in ClearedNames : MeLogin(s, u, GoodPassword)
    \/ \E s \in ClearedSessions : MeLogout(s)
    \/ \E s \in ClearedSessions :
          /\ MeLoaded(s).username = SessionName
          /\ Len(MeLoaded(s).conti) < MaxClearedList
          /\ MeAddConto(s, ContoC, <<>>, "Personale")
    \/ \E s \in ClearedSessions :
          /\ MeLoaded(s).username = SessionName
          /\ Len(MeLoaded(s).spese_giornaliere) < MaxClearedList
          /\ MeAddDaily(s, Day1, "Altro", <<"x">>, 1000, Nessuno)
    \/ \E s \in ClearedSessions : MeChangePassword(s, GoodPassword, GoodPassword, FixedSalt)
    \/ \E s \in ClearedSessions : MeGoToLogin(s)
    \/ \E u \in ClearedNames : UiRegister(u, GoodPassword, FixedSalt)
    \/ \E s \in ClearedSessions, u \in ClearedNames : UiLoginTab(s, u, GoodPassword)
    \/ \E s \in ClearedSessions : UiSessionCheck(s)
    \/ \E s \in ClearedSessions : UiClearUserSession(s)

SpecCleared == Init /\ [][NextCleared]_vars

\* C27: a session that is not authenticated has no username and empty lists
\* of daily expenses, recurring expenses and accounts; and the lists a session
\* holds right after a login are those stored for the user who logged in
\* (empty when nothing is stored), never those of the user before.
C27_UnauthenticatedSessionEmpty ==
    /\ [](\A s \in SessionIds :
             ~ session[s].authenticated =>
                 /\ session[s].username = None
                 /\ session[s].spese_giornaliere = <<>>
                 /\ session[s].spese_ricorrenti = <<>>
                 /\ session[s].conti = <<>>)
    /\ [][(variant = "file" /\ result'.op = "login" /\ result'.ok) =>
             LET s == result'.sid
                 f == result'.key
                 stored == IF f \in DOMAIN data_files
                           THEN <<data_files[f].spese_giornaliere,
                                  data_files[f].spese_ricorrenti, data_files[f].conti>>
                           ELSE <<<<>>, <<>>, <<>>>>
             IN  <<session'[s].spese_giornaliere, session'[s].spese_ricorrenti,
                   session'[s].conti>> = stored]_vars

\* a user with nothing stored has logged in, in the session in which the user
\* before had lists loaded
C27_Witness ==
    /\ variant = "file"
    /\ result.op = "login" /\ result.ok /\ result.key = OtherName
    /\ SessionName \in DOMAIN data_files
    /\ data_files[SessionName].conti # <<>>
    /\ data_files[SessionName].spese_giornaliere # <<>>
    /\ OtherName \notin DOMAIN data_files
    /\ session[1].authenticated /\ session[1].conti = <<>>


-----------------------------------------------------------------------------
(* The window of the session timeout *)

WindowSessions == {1}

NextWindow ==
    \/ TickSession
    \/ /\ users = EmptyDict
       /\ Register(SessionName, GoodPassword, FixedSalt)
    \/ \E s \in WindowSessions : MeLogin(s, SessionName, GoodPassword)
    \/ \E s \in WindowSessions : MeView(s)
    \/ \E s \in WindowSessions : MeLogout(s)
    \/ /\ users = EmptyDict
       /\ UiRegister(SessionName, GoodPassword, FixedSalt)
    \/ \E s \in WindowSessions : UiLoginTab(s, SessionName, GoodPassword)
    \/ \E s \in WindowSessions : UiSessionCheck(s)

SpecWindow == Init /\ [][NextWindow]_vars

\* C28: a timeout check made no later than the timeout after the last
\* activity reports "not expired" and sets last_activity to the time of the
\* check; a check made later reports "expired" and leaves last_activity; and
\* once the last activity is older than the timeout it stays so, whatever
\* happens, until a login of that session succeeds.
C28_SlidingWindowFinalExpiry ==
    [][\A s \in SessionIds :
          LET checked == \/ variant = "file" /\ session[s].authenticated /\ result'.sid = s
                         \/ variant = "db" /\ result'.op = "timeout_check" /\ result'.sid = s
              stamped == session[s].last_activity # NoTime
              late == stamped /\ now - session[s].last_activity > SessionSeconds
              reported == IF variant = "file" THEN result'.op = "session_expired"
                                              ELSE ~ result'.ok
              login == result'.op = "login" /\ result'.ok /\ result'.sid = s
          IN  /\ (checked /\ stamped /\ ~ late) =>
                    (~ reported /\ session'[s].last_activity = now)
              /\ (checked /\ late) =>
                    (reported /\ session'[s].last_activity = session[s].last_activity)
              /\ (late /\ ~ login) =>
                    /\ session'[s].last_activity = session[s].last_activity
                    /\ now' - session'[s].last_activity > SessionSeconds]_vars

\* a session that logged in was found expired by a check, and is still stamped
\* with the activity before the timeout
C28_Witness ==
    /\ \/ result.op = "session_expired"
       \/ result.op = "timeout_check" /\ session[result.sid].authenticated
    /\ ~ result.ok
    /\ session[result.sid].last_activity # NoTime
    /\ now - session[result.sid].last_activity > SessionSeconds


-----------------------------------------------------------------------------
(* The accounts that expenses refer to *)

\* a backup whose expense names an account the backup does not hold
DanglingBackup ==
    json_dumps([spese_giornaliere |-> <<DailyRec2>>,
                spese_ricorrenti |-> <<>>,
                conti |-> <<>>])

IntegritySessions == {1}
MaxIntegrityList == 1

NextIntegrity ==
    \/ /\ users = EmptyDict
       /\ Register(SessionName, GoodPassword, FixedSalt)
    \/ \E s \in IntegritySessions : MeLogin(s, SessionName, GoodPassword)
    \/ \E s \in IntegritySessions, nome \in {ContoC, <<"d">>} :
          /\ Len(MeLoaded(s).conti) < MaxIntegrityList + 1
          /\ MeAddConto(s, nome, <<>>, "Personale")
    \/ \E s \in IntegritySessions, idx \in 0..MaxIntegrityList : MeDeleteConto(s, idx)
    \/ \E s \in IntegritySessions, conto \in ExpenseContos :
          /\ Len(MeLoaded(s).spese_giornaliere) < MaxIntegrityList
          /\ MeAddDaily(s, Day1, "Altro", <<"x">>, 1000, conto)
    \/ \E s \in IntegritySessions, conto \in ExpenseContos :
          /\ Len(MeLoaded(s).spese_ricorrenti) < MaxIntegrityList
          /\ MeAddRecurring(s, <<"r">>, "Altro", 1000, "Mensile", conto)
    \/ \E s \in IntegritySessions : MeDeleteDaily(s, 0)
    \/ \E s \in IntegritySessions : MeDeleteRecurring(s, 0)
    \/ \E s \in IntegritySessions, blob \in {LegacyBackup, DanglingBackup} : MeRestore(s, blob)
    \/ \E blob \in {LegacyBackup, DanglingBackup} : EmImport(blob)

SpecIntegrity == Init /\ [][NextIntegrity]_vars

\* every record of the two lists that refers to an account names one of conti
ReferencesExist(spese_giornaliere, spese_ricorrenti, conti) ==
    \A list \in {spese_giornaliere, spese_ricorrenti} :
        \A i \in DOMAIN list :
            GetConto(list[i]) \notin {None, Nessuno} =>
                \E j \in DOMAIN conti :
                    "nome" \in DOMAIN conti[j] /\ conti[j].nome = GetConto(list[i])

\* C29: whatever accounts and expenses were added or deleted and whatever
\* backups were restored, every daily or recurring expense that refers to an
\* account names an account of the same user's list: in the lists of a
\* logged-in session, in a readable data file, and in the lists an import
\* hands back.
C29_ReferencesNameAccounts ==
    /\ \A s \in SessionIds :
          session[s].authenticated =>
              ReferencesExist(session[s].spese_giornaliere, session[s].spese_ricorrenti,
                              session[s].conti)
    /\ \A f \in DOMAIN data_files :
          data_files[f].complete =>
              ReferencesExist(data_files[f].spese_giornaliere,
                              data_files[f].spese_ricorrenti, data_files[f].conti)
    /\ (result.op = "import" /\ result.ok) =>
          ReferencesExist(result.loaded[1], result.loaded[2], result.loaded[3])


-----------------------------------------------------------------------------
(* The table of the accounts against the totals *)

\* a backup with a recurring expense paid every three months
QuarterlyBackup ==
    json_dumps([spese_giornaliere |->
                   <<[data |-> Day1, categoria |-> "Altro", descrizione |-> <<"x">>,
                      importo |-> 20000, conto |-> ContoC]>>,
                spese_ricorrenti |->
                   <<[nome |-> <<"r">>, categoria |-> "Altro", importo |-> 30000,
                      frequenza |-> "Trimestrale", conto |-> ContoC]>>,
                conti |-> <<ContoRec>>])

PartitionSessions == {1}
MaxPartitionList == 2

NextPartition ==
    \/ /\ users = EmptyDict
       /\ Register(SessionName, GoodPassword, FixedSalt)
    \/ \E s \in PartitionSessions : MeLogin(s, SessionName, GoodPassword)
    \/ \E s \in PartitionSessions :
          /\ Len(MeLoaded(s).conti) < 1
          /\ MeAddConto(s, ContoC, <<>>, "Personale")
    \/ \E s \in PartitionSessions, d \in {<<Day1, ContoC>>, <<Day2, Nessuno>>} :
          /\ Len(MeLoaded(s).spese_giornaliere) < MaxPartitionList
          /\ MeAddDaily(s, d[1], "Altro", <<"x">>, 20000, d[2])
    \/ \E s \in PartitionSessions, r \in TotalsRecurring :
          /\ Len(MeLoaded(s).spese_ricorrenti) < MaxPartitionList
          /\ MeAddRecurring(s, <<"r">>, "Altro", r[2], r[1], r[3])
    \/ \E s \in PartitionSessions :
          /\ MeLoaded(s).spese_ricorrenti = <<>>
          /\ MeRestore(s, QuarterlyBackup)
    \/ \E s \in PartitionSessions, mese \in {Day1[2], Day2[2]} :
          MeDashboard(s, mese, Day1[1])

SpecPartition == InitFile /\ [][NextPartition]_vars

\* the values of one column of a table of accounts, added up
RECURSIVE SumColumn(_, _, _)
SumColumn(table, keys, column) ==
    IF keys = {} THEN 0
    ELSE LET k == CHOOSE x \in keys : TRUE
         IN  table[k][column] + SumColumn(table, keys \ {k}, column)

RECURSIVE SumImporto(_)
SumImporto(spese) == IF spese = <<>> THEN 0 ELSE Head(spese).importo + SumImporto(Tail(spese))

\* C30: the entries of the table of the accounts split the totals: their
\* recurring values add up to the recurring monthly total of the same list of
\* recurring expenses, and their daily values to the sum of the amounts of the
\* daily expenses of the month, also when a recurring expense has a frequency
\* other than Settimanale, Mensile and Annuale.
C30_BucketsPartitionTotals ==
    [][\A s \in PartitionSessions :
          (result'.op = "dashboard" /\ result'.ok /\ result'.sid = s
             /\ session'[s].conti # <<>>) =>
             LET row == result'.loaded[1]
                 g == session'[s].spese_giornaliere
                 r == session'[s].spese_ricorrenti
                 em == calcola_spese_per_conto(g, r, row.mese, row.anno)
                 me == row.spese_per_conto
                 month == SumImporto(filtra_spese_per_mese(g, row.mese, row.anno))
             IN  /\ SumColumn(me, DOMAIN me, "ricorrenti") = row.totale_ricorrenti_mese
                 /\ SumColumn(me, DOMAIN me, "giornaliere") = month
                 /\ SumColumn(em, DOMAIN em, "ricorrenti")
                       = calcola_spese_ricorrenti_mensili(r)
                 /\ SumColumn(em, DOMAIN em, "giornaliere") = month]_vars

=============================================================================
